---------------------------- MODULE Spec2Model ----------------------------
(***************************************************************************)
(* A model of the Magma Parse Tool (mpt.hpp): the copy-on-write text       *)
(* buffer System::Source::SourceData, the lexer get_first_word, the rule   *)
(* validator and matcher System::Rule, the template expansion              *)
(* System::expand_generic, the built-in counter extension and the driver   *)
(* System::parse.                                                          *)
(*                                                                         *)
(* Text is a sequence of one-character strings.  C++ indices are 0-based;  *)
(* the model keeps the 0-based numbers of the source and reads character   *)
(* i of a text t as At(t, i).                                              *)
(***************************************************************************)
EXTENDS Integers, Sequences, FiniteSets, TLC

VARIABLES
    bufs,      \* SourceData objects by address: state, data, parent, refs, size
    heap,      \* char arrays made by new char[]: bytes and whether delete[]d
    fault,     \* "none", or the undefined behaviour the run has reached
    ops,       \* the number of buffer operations performed
    last,      \* the last buffer operation: its name, its object, that object's parent before it
    system,    \* the System: the words given to each Rule, its rules, its extensions
    call,      \* the last call of Rule::match or of an extension, and what it returned
    drv        \* the invocation of System::parse in progress or ended

vars == <<bufs, heap, fault, ops, last, system, call, drv>>

(***************************************************************************)
(* Bounds of the model.                                                    *)
(***************************************************************************)
MaxBufs == 4
MaxOps == 5

(***************************************************************************)
(* The copy-on-write buffer, System::Source::SourceData.                   *)
(***************************************************************************)
Bytes == {"a", "b"}
BufContents == {<<"a", "b">>}
BufIds == 1 .. MaxBufs
Null == 0

FreshBuf == [st |-> "free", data |-> Null, parent |-> Null, refs |-> <<>>, size |-> 0]

\* state of the buffers as one value, so that the operations compose
BufState == [bufs |-> bufs, heap |-> heap, fault |-> fault]

Faulted(s, what) == [s EXCEPT !.fault = IF s.fault = "none" THEN what ELSE s.fault]

\* std::find(refs.begin(), refs.end(), x): the first index holding x, or
\* Len + 1 for end()
RECURSIVE FindFrom(_, _, _)
FindFrom(seq, x, i) ==
    IF i > Len(seq) THEN i
    ELSE IF seq[i] = x THEN i
    ELSE FindFrom(seq, x, i + 1)

Find(seq, x) == FindFrom(seq, x, 1)

\* std::vector::erase(it) on the elements [1, n) of the storage mem: the tail
\* moves down by one, the slot past the new end keeps its old value
EraseAt(seq, i) == [j \in 1 .. Len(seq) - 1 |-> IF j < i THEN seq[j] ELSE seq[j + 1]]

\* char arrays by address; an address no buffer points to is not part of the
\* state (a leaked or released array nothing can reach)
HeapIds == 1 .. MaxBufs + 1
NoArray == [bytes |-> <<>>, freed |-> FALSE, used |-> FALSE]

NewAddr(s) == CHOOSE a \in HeapIds : /\ ~s.heap[a].used
                                     /\ \A a2 \in HeapIds : ~s.heap[a2].used => a <= a2

\* new char[n] filled by memcpy
Alloc(s, bytes) ==
    [s EXCEPT !.heap[NewAddr(s)] = [bytes |-> bytes, freed |-> FALSE, used |-> TRUE]]

\* forget the arrays that no buffer points to
Collect(s) ==
    [s EXCEPT !.heap = [a \in HeapIds |->
                          IF \E b \in DOMAIN s.bufs : s.bufs[b].st = "live" /\ s.bufs[b].data = a
                          THEN s.heap[a] ELSE NoArray]]

\* parent->refs.erase(std::find(parent->refs.begin(), parent->refs.end(), this))
EraseFromParent(s, b) ==
    LET p == s.bufs[b].parent
    IN  IF s.bufs[p].st # "live" THEN Faulted(s, "use of destroyed parent")
        ELSE IF Find(s.bufs[p].refs, b) > Len(s.bufs[p].refs)
             THEN Faulted(s, "erase of end iterator")
        ELSE [s EXCEPT !.bufs[p].refs = EraseAt(@, Find(@, b))]

\* mutant: the view drops its parent without taking a private copy
make_unique_no_copy(s, b) ==
    IF s.bufs[b].parent = Null THEN s
    ELSE LET s1 == EraseFromParent(s, b)
         IN  IF s1.fault # "none" THEN s1
             ELSE [s1 EXCEPT !.bufs[b].parent = Null]

\* SourceData::make_unique
make_unique(s, b) ==
    IF s.bufs[b].parent = Null THEN s
    ELSE IF s.bufs[b].data = Null \/ s.heap[s.bufs[b].data].freed
         THEN Faulted(s, "read of released storage")
    ELSE LET s1 == Alloc(s, s.heap[s.bufs[b].data].bytes)
             s2 == [s1 EXCEPT !.bufs[b].data = NewAddr(s)]
             s3 == EraseFromParent(s2, b)
         IN  IF s3.fault # "none" THEN s3
             ELSE [s3 EXCEPT !.bufs[b].parent = Null]

\* SourceData(const char*, size)
construct(s, b, bytes) ==
    LET s1 == Alloc(s, bytes)
    IN  [s1 EXCEPT !.bufs[b] = [st |-> "live", data |-> NewAddr(s), parent |-> Null,
                                refs |-> <<>>, size |-> Len(bytes)]]

\* SourceData(const SourceData& other)
copy_construct(s, b, o) ==
    LET p == IF s.bufs[o].parent # Null THEN s.bufs[o].parent ELSE o
        s1 == [s EXCEPT !.bufs[b] = [st |-> "live", data |-> s.bufs[o].data, parent |-> p,
                                     refs |-> <<>>, size |-> s.bufs[o].size]]
    IN  IF s.bufs[p].st # "live" THEN Faulted(s1, "use of destroyed parent")
        ELSE [s1 EXCEPT !.bufs[p].refs = Append(@, b)]

\* SourceData(SourceData&& other)
move_construct(s, b, o) ==
    [s EXCEPT !.bufs[b] = [st |-> "live", data |-> s.bufs[o].data, parent |-> s.bufs[o].parent,
                           refs |-> <<>>, size |-> s.bufs[o].size],
              !.bufs[o] = [@ EXCEPT !.data = Null, !.parent = Null, !.refs = <<>>, !.size = 0]]

\* the loop of ~SourceData over refs: the iterator and the end are taken once,
\* make_unique erases from the vector under them.  mem is the vector's storage
\* (slots past its size keep their old value), i the iterator, end0 the end
\* taken before the loop.
RECURSIVE DtorLoop(_, _, _, _, _)
DtorLoop(s, b, mem, i, end0) ==
    IF i > end0 \/ s.fault # "none" THEN s
    ELSE IF s.bufs[mem[i]].st # "live" THEN Faulted(s, "use of destroyed view")
    ELSE LET ref == mem[i]
             s1 == make_unique(s, ref)
             n == Len(s1.bufs[b].refs)
             mem1 == [j \in 1 .. Len(mem) |-> IF j <= n THEN s1.bufs[b].refs[j] ELSE mem[j]]
         IN  DtorLoop(s1, b, mem1, i + 1, end0)

\* ~SourceData.  checked: a build whose iterators are checked stops at the
\* first use of the invalidated iterator.
destroy(s, b, checked) ==
    LET o == s.bufs[b]
        s1 == IF o.parent # Null THEN EraseFromParent(s, b)
              ELSE IF o.refs # <<>>
                   THEN IF checked
                        THEN Faulted(make_unique(s, o.refs[1]), "invalidated iterator")
                        ELSE DtorLoop(s, b, o.refs, 1, Len(o.refs))
              ELSE IF o.data = Null THEN [s EXCEPT !.bufs[b] = [FreshBuf EXCEPT !.st = "live"]]
              ELSE IF s.heap[o.data].freed THEN Faulted(s, "double delete")
              ELSE [s EXCEPT !.heap[o.data].freed = TRUE,
                             !.bufs[b] = [FreshBuf EXCEPT !.st = "live"]]
    IN  IF s1.fault # "none" THEN s1
        ELSE [s1 EXCEPT !.bufs[b].st = "dead", !.bufs[b].refs = <<>>]

\* operator=(const SourceData&)
copy_assign(s, b, o, checked) ==
    IF b = o THEN s
    ELSE LET s1 == destroy(s, b, checked)
         IN  IF s1.fault # "none" THEN s1 ELSE copy_construct(s1, b, o)

\* operator=(SourceData&&)
move_assign(s, b, o, checked) ==
    IF b = o THEN s
    ELSE LET s1 == destroy(s, b, checked)
         IN  IF s1.fault # "none" THEN s1 ELSE move_construct(s1, b, o)

\* char& operator[](size_t i), and the store through the reference
write(s, b, i, c) ==
    LET s1 == IF s.bufs[b].parent # Null THEN make_unique(s, b) ELSE s
    IN  IF s1.fault # "none" THEN s1
        ELSE IF s1.bufs[b].data = Null \/ s1.heap[s1.bufs[b].data].freed
             THEN Faulted(s1, "write to released storage")
        ELSE [s1 EXCEPT !.heap[s1.bufs[b].data].bytes[i] = c]

\* the bytes readable through b (const operator[]), or "released"
Readable(s, b) ==
    IF s.bufs[b].data = Null THEN <<>>
    ELSE IF s.heap[s.bufs[b].data].freed THEN <<"released">>
    ELSE s.heap[s.bufs[b].data].bytes

Live(s) == {b \in BufIds : s.bufs[b].st = "live"}
Unused(s) == {b \in BufIds : s.bufs[b].st = "free"}

InitBuf ==
    /\ bufs = [b \in BufIds |-> FreshBuf]
    /\ heap = [a \in HeapIds |-> NoArray]
    /\ fault = "none"
    /\ ops = 0
    /\ last = [op |-> "none", b |-> Null, p |-> Null]
    /\ system = <<>> /\ call = <<>> /\ drv = <<>>

Becomes(s, op, b) ==
    /\ last' = [op |-> op, b |-> b, p |-> bufs[b].parent]
    /\ bufs' = Collect(s).bufs
    /\ heap' = Collect(s).heap
    /\ fault' = s.fault
    /\ ops' = ops + 1
    /\ UNCHANGED <<system, call, drv>>

Running == fault = "none" /\ ops < MaxOps

\* the lowest address not yet used: where the next object is constructed
NextBuf1 == CHOOSE b \in BufIds : /\ bufs[b].st = "free"
                                  /\ \A b2 \in BufIds : bufs[b2].st = "free" => b <= b2

Construct(b, bytes) ==
    /\ Running /\ b \in Unused(BufState) /\ b = NextBuf1
    /\ Becomes(construct(BufState, b, bytes), "construct", b)

CopyConstruct(b, o) ==
    /\ Running /\ b \in Unused(BufState) /\ b = NextBuf1 /\ o \in Live(BufState)
    /\ Becomes(copy_construct(BufState, b, o), "copy_construct", b)

MoveConstruct(b, o) ==
    /\ Running /\ b \in Unused(BufState) /\ b = NextBuf1 /\ o \in Live(BufState)
    /\ Becomes(move_construct(BufState, b, o), "move_construct", b)

CopyAssign(b, o, checked) ==
    /\ Running /\ b \in Live(BufState) /\ o \in Live(BufState)
    /\ Becomes(copy_assign(BufState, b, o, checked), "copy_assign", b)

MoveAssign(b, o, checked) ==
    /\ Running /\ b \in Live(BufState) /\ o \in Live(BufState)
    /\ Becomes(move_assign(BufState, b, o, checked), "move_assign", b)

Write(b, i, c) ==
    /\ Running /\ b \in Live(BufState) /\ i \in 1 .. bufs[b].size
    /\ Becomes(write(BufState, b, i, c), "write", b)

MakeUnique(b) ==
    /\ Running /\ b \in Live(BufState)
    /\ Becomes(make_unique(BufState, b), "make_unique", b)

Destroy(b, checked) ==
    /\ Running /\ b \in Live(BufState)
    /\ Becomes(destroy(BufState, b, checked), "destroy", b)

Read(b, i) ==
    /\ Running /\ b \in Live(BufState) /\ i \in 1 .. bufs[b].size
    /\ fault' = IF Readable(BufState, b) = <<"released">>
                THEN "read of released storage" ELSE fault
    /\ UNCHANGED <<bufs, heap, ops, last, system, call, drv>>

NextBuf ==
    \/ \E b \in BufIds, bytes \in BufContents : Construct(b, bytes)
    \/ \E b, o \in BufIds : CopyConstruct(b, o)
    \/ \E b, o \in BufIds : MoveConstruct(b, o)
    \/ \E b, o \in BufIds, checked \in BOOLEAN : CopyAssign(b, o, checked)
    \/ \E b, o \in BufIds, checked \in BOOLEAN : MoveAssign(b, o, checked)
    \/ \E b \in BufIds, i \in 1 .. 2, c \in Bytes : Write(b, i, c)
    \/ \E b \in BufIds : MakeUnique(b)
    \/ \E b \in BufIds, checked \in BOOLEAN : Destroy(b, checked)
    \/ \E b \in BufIds, i \in 1 .. 2 : Read(b, i)

SpecBuf == InitBuf /\ [][NextBuf]_vars

(***************************************************************************)
(* Text.  A std::string is a sequence of characters; the character at      *)
(* index Len is the terminating NUL.  A Source made from a string holds    *)
(* one more byte after the NUL, which its constructor copies from past the *)
(* end of the string (junk).                                               *)
(***************************************************************************)
NUL == "NUL"
OOB == "OOB"

Min(a, b) == IF a < b THEN a ELSE b
Max(a, b) == IF a > b THEN a ELSE b

\* str[i] of a std::string
At(t, i) ==
    IF i >= 0 /\ i < Len(t) THEN t[i + 1]
    ELSE IF i = Len(t) THEN NUL
    ELSE OOB

\* source[i] of a Source(const std::string&): data holds size() + 2 bytes
SrcAt(t, j, i) ==
    IF i = Len(t) + 1 THEN j ELSE At(t, i)

\* std::string::substr(pos, n) for pos <= size(); a count below zero is a
\* size_t that wrapped around (npos and the like)
SubStr(t, pos, n) ==
    SubSeq(t, pos + 1, pos + (IF n < 0 THEN Len(t) - pos ELSE Min(n, Len(t) - pos)))

\* SourceData::substr(pos, len): std::string{data + pos, len}, the bytes as
\* they lie in the array
RawSub(t, j, pos, n) == [k \in 1 .. n |-> SrcAt(t, j, pos + k - 1)]

RECURSIVE Concat(_)
Concat(ss) == IF ss = <<>> THEN <<>> ELSE Head(ss) \o Concat(Tail(ss))

Digits == {"0", "1", "2", "3", "4", "5", "6", "7", "8", "9"}
Letters == {"a", "b", "c", "d", "e", "f", "g", "h", "i", "j", "k", "l", "m",
            "n", "o", "p", "q", "r", "s", "t", "u", "v", "w", "x", "y", "z",
            "A", "B", "C", "D", "E", "F", "G", "H", "I", "J", "K", "L", "M",
            "N", "O", "P", "Q", "R", "S", "T", "U", "V", "W", "X", "Y", "Z"}
Symbols == {"!", "\"", "#", "$", "%", "&", "'", "(", ")", "*", "+", ",", "-", ".", "/",
            ":", ";", "<", "=", ">", "?", "@",
            "[", "\\", "]", "^", "_",
            "{", "|", "}", "~"}   \* and the backquote, which no text of the model holds

is_whitespace(c) == c \in {" ", "\n", "\t"}
is_num(c) == c \in Digits
is_alpha(c) == c \in Letters
is_sym(c) == c \in Symbols

(***************************************************************************)
(* The cursor of a Source: SourcePos and operator++, operator+=.           *)
(***************************************************************************)
SourcePos(pos, line, column) == [pos |-> pos, line |-> line, column |-> column]
StartPos == SourcePos(0, 1, 1)

\* Source::reached_end: pos.pos >= size() - 1, size() being source.size - 1
reached_end(t, sp) == sp.pos >= Len(t)

\* ++ that takes no byte for a newline
IncOnLine(t, sp) ==
    IF reached_end(t, sp) THEN sp ELSE SourcePos(sp.pos + 1, sp.line, sp.column + 1)

\* Source::operator++
Inc(t, sp) ==
    IF reached_end(t, sp) THEN sp
    ELSE IF At(t, sp.pos) = "\n" THEN SourcePos(sp.pos + 1, sp.line + 1, 1)
    ELSE SourcePos(sp.pos + 1, sp.line, sp.column + 1)

\* Source::operator+=(i); a count below zero is a size_t that wrapped around
RECURSIVE Advance(_, _, _)
Advance(t, sp, n) ==
    IF reached_end(t, sp) \/ n = 0 THEN sp
    ELSE Advance(t, Inc(t, sp), IF n < 0 THEN n ELSE n - 1)

(***************************************************************************)
(* The lexer: get_full_brace and get_first_word.  A token is the pair of   *)
(* its first index and the index after its last.                           *)
(***************************************************************************)
\* the value e under a name: With(e, LAMBDA x : body) is body with x standing for e
With(e, In(_)) == In(e)

Pair(a, b) == <<a, b>>
NoWord == Pair(0, 0)

Closer(c) ==
    CASE c = "(" -> ")"
      [] c = "[" -> "]"
      [] c = "{" -> "}"
      [] c = "<" -> ">"
      [] OTHER -> NUL

\* the while loop of get_full_brace: sec is res.second, st the nesting depth
RECURSIVE BraceScan(_, _, _, _, _, _)
BraceScan(t, j, beg, fin, sec, st) ==
    IF ~(sec < Len(t) + 1 /\ st >= 1) THEN sec
    ELSE LET c == SrcAt(t, j, sec + 1)
             st1 == IF c = beg THEN st + 1 ELSE st
             st2 == IF c = fin THEN st1 - 1 ELSE st1
         IN  BraceScan(t, j, beg, fin, sec + 1, st2)

\* get_full_brace of the Source (t, j) with its cursor at p: the index after
\* the balanced closer
get_full_brace(t, j, p) ==
    With(SrcAt(t, j, p), LAMBDA beg :
    With(Closer(beg), LAMBDA fin :
        IF fin = NUL THEN 0
        ELSE With(BraceScan(t, j, beg, fin, p, 1), LAMBDA sec :
                 IF SrcAt(t, j, sec) = fin THEN sec + 1 ELSE sec)))

\* the index of the first character at or after i that is outside the class
\* (a NUL always is)
RECURSIVE SkipWhile(_, _, _)
SkipWhile(Class(_), t, i) ==
    IF At(t, i) # NUL /\ Class(At(t, i)) THEN SkipWhile(Class, t, i + 1) ELSE i

InNumber(c) == is_num(c) \/ c \in {".", "u", "i", "f"}
InName(c) == is_alpha(c) \/ is_num(c) \/ c = "_"

\* the loop of the quoted string: stop at a quote not preceded by a backslash
RECURSIVE QuoteScan(_, _)
QuoteScan(t, sec) ==
    IF (At(t, sec) # "\"" \/ (At(t, sec) = "\"" /\ At(t, sec - 1) = "\\")) /\ At(t, sec) # NUL
    THEN QuoteScan(t, sec + 1)
    ELSE sec

\* get_first_word(str, full_brace) for the Source (t, j) with its cursor at p
get_first_word(t, j, p, full_brace) ==
    With(SkipWhile(is_whitespace, t, p), LAMBDA first :
    With(At(t, first), LAMBDA c :
        IF c = NUL THEN NoWord
        ELSE IF is_num(c) THEN Pair(first, SkipWhile(InNumber, t, first))
        ELSE IF is_alpha(c) THEN Pair(first, SkipWhile(InName, t, first))
        ELSE IF ~is_sym(c) THEN NoWord
        ELSE IF c \in {"(", "[", "{", "<"}
             THEN IF full_brace THEN Pair(first, get_full_brace(t, j, first))
                  ELSE Pair(first, first + 1)
        ELSE IF c \in {"+", "-", "*", "&", "|", "="} /\ At(t, first + 1) = c
             THEN Pair(first, first + 2)
        ELSE IF c \in {"+", "-", "*", "&", "|", "=", "/", "^", "%"}
             THEN IF At(t, first + 1) = "=" THEN Pair(first, first + 2)
                  ELSE Pair(first, first + 1)
        ELSE IF c = "\""
             THEN With(QuoteScan(t, first + 1), LAMBDA sec :
                      Pair(first, IF At(t, sec) = "\"" THEN sec + 1 ELSE sec))
        ELSE Pair(first, first + 1)))

(***************************************************************************)
(* Words and rules.  A Word is its string: three characters that encode    *)
(* optionality, repetition and kind, then the literal, the capture name or *)
(* the template.  The model is of a build without ALLOW_THROW: result() of *)
(* a Result that holds an error reads the error's code, -1, which is none  *)
(* of the enumerators ("garbage").                                         *)
(***************************************************************************)
Garbage == "garbage"

optional(w) ==
    IF w = <<>> THEN "error"
    ELSE CASE At(w, 0) = " " -> "MANDATORY"
           [] At(w, 0) = "?" -> "OPTIONAL"
           [] At(w, 0) = "^" -> "OPTIONAL_LIST_MANDATORY_ONE"
           [] OTHER -> "error"

repeat(w) ==
    IF w = <<>> THEN "error"
    ELSE CASE At(w, 1) = " " -> "ONCE"
           [] At(w, 1) = "*" -> "REPEAT"
           [] At(w, 1) = "#" -> "REPEAT_SINGLE"
           [] OTHER -> "error"

type(w) ==
    IF w = <<>> THEN "error"
    ELSE CASE At(w, 2) = " " -> "DIRECT"
           [] At(w, 2) = "$" -> "GENERIC"
           [] At(w, 2) = "+" -> "EXPAND"
           [] At(w, 2) = "!" -> "ERROR_MESSAGE_SET"
           [] At(w, 2) = "?" -> "ERROR_FIX_SET"
           [] OTHER -> "error"

\* Result::result()
result(r) == IF r = "error" THEN Garbage ELSE r

\* word.substr(3)
Payload(w) == SubStr(w, 3, -1)

\* Word(const std::string& str)
WordOfString(str) ==
    IF optional(str) = "error" \/ repeat(str) = "error" \/ type(str) = "error" THEN <<>>
    ELSE IF type(str) = "EXPAND" /\ (repeat(str) # "ONCE" \/ optional(str) # "MANDATORY") THEN <<>>
    ELSE str

\* Word(name, optional, repeat, type)
Word(name, opt, rep, ty) ==
    << CASE opt = "MANDATORY" -> " " [] opt = "OPTIONAL" -> "?" [] OTHER -> "^",
       CASE rep = "ONCE" -> " " [] rep = "REPEAT" -> "*" [] OTHER -> "#",
       CASE ty = "DIRECT" -> " " [] ty = "GENERIC" -> "$" [] ty = "EXPAND" -> "+"
         [] ty = "ERROR_MESSAGE_SET" -> "!" [] OTHER -> "?" >> \o name

\* words[i]; an index outside the vector reads whatever lies there, which the
\* model takes to decode to none of the enumerators
WordAt(words, i) == IF i >= 0 /\ i < Len(words) THEN words[i + 1] ELSE <<>>

InWords(words, i) == i >= 0 /\ i < Len(words)

NoError == [code |-> 0, message |-> ""]
Error(code, message) == [code |-> code, message |-> message]

\* mutant: the duplicate-name check looks at the next word only
RECURSIVE ValidFromAdjacentNames(_, _)
ValidFromAdjacentNames(words, i) ==
    IF i >= Len(words) THEN NoError
    ELSE LET word == WordAt(words, i)
         IN  IF type(word) = "error"
             THEN Error(2, "Invalid rule. Contains malformed word")
             ELSE IF result(repeat(word)) # "ONCE"
                     /\ result(optional(WordAt(words, i + 1))) # "MANDATORY"
             THEN Error(6, "Invalid rule. Any repeating word (or list of repeating words) cannot be followed by an optional word")
             ELSE IF type(word) = "GENERIC"
                     /\ result(type(WordAt(words, i + 1))) = "GENERIC"
                     /\ Payload(WordAt(words, i + 1)) = Payload(word)
             THEN Error(7, "Invalid rule. Contains duplicate generic word name")
             ELSE ValidFromAdjacentNames(words, i + 1)

\* mutant: the adjacency check is skipped for REPEAT_SINGLE words
RECURSIVE ValidFromManyOnly(_, _)
ValidFromManyOnly(words, i) ==
    IF i >= Len(words) THEN NoError
    ELSE LET word == WordAt(words, i)
         IN  IF type(word) = "error"
             THEN Error(2, "Invalid rule. Contains malformed word")
             ELSE IF result(repeat(word)) = "REPEAT"
                     /\ result(optional(WordAt(words, i + 1))) # "MANDATORY"
             THEN Error(6, "Invalid rule. Any repeating word (or list of repeating words) cannot be followed by an optional word")
             ELSE IF type(word) = "GENERIC"
                     /\ \E k \in i + 1 .. Len(words) - 1 :
                           /\ result(type(WordAt(words, k))) = "GENERIC"
                           /\ Payload(WordAt(words, k)) = Payload(word)
             THEN Error(7, "Invalid rule. Contains duplicate generic word name")
             ELSE ValidFromManyOnly(words, i + 1)

\* the body of the for loop of is_valid, from word i on
RECURSIVE ValidFrom(_, _)
ValidFrom(words, i) ==
    IF i >= Len(words) THEN NoError
    ELSE LET word == WordAt(words, i)
         IN  IF type(word) = "error"
             THEN Error(2, "Invalid rule. Contains malformed word")
             ELSE IF result(repeat(word)) # "ONCE"
                     /\ result(optional(WordAt(words, i + 1))) # "MANDATORY"
             THEN Error(6, "Invalid rule. Any repeating word (or list of repeating words) cannot be followed by an optional word")
             ELSE IF type(word) = "GENERIC"
                     /\ \E k \in i + 1 .. Len(words) - 1 :
                           /\ result(type(WordAt(words, k))) = "GENERIC"
                           /\ Payload(WordAt(words, k)) = Payload(word)
             THEN Error(7, "Invalid rule. Contains duplicate generic word name")
             ELSE ValidFrom(words, i + 1)

\* the for loop of is_valid
ValidLoop(words) == ValidFrom(words, 0)

\* mutant: the last word's type is not looked at
LastWordAnyType(words) ==
    IF type(WordAt(words, Len(words) - 1)) = "error"
    THEN Error(2, "Invalid rule. Contains malformed word")
    ELSE IF repeat(WordAt(words, Len(words) - 1)) = "error"
    THEN Error(2, "Invalid rule. Contains malformed word")
    ELSE IF repeat(WordAt(words, Len(words) - 1)) # "ONCE"
    THEN Error(5, "Invalid rule. Last word cannot be repeating")
    ELSE NoError

\* the checks of is_valid on the last word
LastWordCheck(words) ==
    IF type(WordAt(words, Len(words) - 1)) = "error"
    THEN Error(2, "Invalid rule. Contains malformed word")
    ELSE IF type(WordAt(words, Len(words) - 1)) # "EXPAND"
    THEN Error(3, "Invalid rule. Last word must be of type EXPAND")
    ELSE IF repeat(WordAt(words, Len(words) - 1)) = "error"
    THEN Error(2, "Invalid rule. Contains malformed word")
    ELSE IF repeat(WordAt(words, Len(words) - 1)) # "ONCE"
    THEN Error(5, "Invalid rule. Last word cannot be repeating")
    ELSE NoError

\* Rule::is_valid: NoError for true, else the Error returned
is_valid(words) ==
    IF words = <<>> THEN Error(1, "Rule is empty")
    ELSE With(LastWordCheck(words), LAMBDA last_word :
             IF last_word # NoError THEN last_word ELSE ValidLoop(words))

Rule(words) == IF is_valid(words) # NoError THEN <<>> ELSE words

\* Rule::num_words
num_words(words) == Len(words) - 1

(***************************************************************************)
(* Rule::ensure_word_match and Rule::match.  The input is the text t with  *)
(* the byte j behind its terminator; p is the cursor's offset.             *)
(***************************************************************************)
\* Source::matches, for a cursor at offset q
matches(t, j, q, str) ==
    IF Len(str) > Len(t) + 1 - q THEN FALSE
    ELSE \A i \in 0 .. Len(str) - 1 : SrcAt(t, j, q + i) = str[i + 1]

Unset == -1

\* a Result of ensure_word_match together with what it stored through
\* found_word_b_return (Unset: nothing stored)
WordOk(m, b) == [err |-> FALSE, m |-> m, b |-> b, message |-> ""]
WordErr(message, b) == [err |-> TRUE, m |-> NoWord, b |-> b, message |-> message]

\* while (words[backup_word].repeat().result() == REPEAT) ++backup_word;
RECURSIVE SkipRepeat(_, _)
SkipRepeat(words, i) ==
    IF result(repeat(WordAt(words, i))) = "REPEAT" /\ InWords(words, i)
    THEN SkipRepeat(words, i + 1) ELSE i

\* while (is_whitespace(str[i - 1])) --i;
RECURSIVE TrimBack(_, _, _)
TrimBack(t, j, i) ==
    IF i > 0 /\ is_whitespace(SrcAt(t, j, i - 1)) THEN TrimBack(t, j, i - 1) ELSE i

RECURSIVE ensure_word_match(_, _, _, _, _, _)
RECURSIVE NextWordLoop(_, _, _, _, _, _, _)

\* the do-while loop of the GENERIC case: i is the offset tried, cp the offset
\* of str_cpy; gives the match of the following word, or an error
NextWordLoop(words, t, j, word_id, backup_word, i, cp) ==
    With(Advance(t, SourcePos(cp, 1, 1), i - cp).pos, LAMBDA cp1 :
    With(ensure_word_match(words, t, j, cp1, word_id + 1, TRUE), LAMBDA r1 :
    With(IF r1.b # Unset THEN r1.b ELSE i, LAMBDA i1 :
    With(result(repeat(WordAt(words, word_id))) = "REPEAT" /\ r1.err, LAMBDA again :
    With(IF again THEN ensure_word_match(words, t, j, cp1, backup_word, TRUE) ELSE r1, LAMBDA r2 :
    With(IF again /\ r2.b # Unset THEN r2.b ELSE i1, LAMBDA i2 :
        IF cp1 >= Len(t) \/ i = i2
        THEN WordErr("Reached end of string without finding next word", Unset)
        ELSE IF r2.err THEN NextWordLoop(words, t, j, word_id, backup_word, i2, cp1)
        ELSE r2))))))

\* mutant: a literal is compared with the whole token, not with its start
DirectWholeToken(words, t, j, p, word_id, want_b) ==
    LET word == WordAt(words, word_id)
        b == IF want_b THEN get_first_word(t, j, p, TRUE)[2] ELSE Unset
        word_desc == get_first_word(t, j, p, FALSE)
    IN  IF word_desc[2] - word_desc[1] = 0 THEN WordErr("Expected word", b)
        ELSE IF SubStr(t, word_desc[1], word_desc[2] - word_desc[1]) # Payload(word)
        THEN WordErr("Word does not match expected word", b)
        ELSE WordOk(Pair(word_desc[1], word_desc[1] + Len(word) - 3), b)

\* case Word::Type::DIRECT
MatchDirect(words, t, j, p, word_id, want_b) ==
    With(WordAt(words, word_id), LAMBDA word :
    With(IF want_b THEN get_first_word(t, j, p, TRUE)[2] ELSE Unset, LAMBDA b :
    With(get_first_word(t, j, p, FALSE), LAMBDA word_desc :
        IF word_desc[2] - word_desc[1] = 0 THEN WordErr("Expected word", b)
        ELSE IF ~matches(t, j, word_desc[1], Payload(word))
        THEN WordErr("Word does not match expected word", b)
        ELSE WordOk(Pair(word_desc[1], word_desc[1] + Len(word) - 3), b))))

\* mutant: a capture always takes one token, whatever follows it
GenericOneToken(words, t, j, p, word_id, want_b) ==
    LET first_word == get_first_word(t, j, p, TRUE)
    IN  IF first_word[2] - first_word[1] = 0 THEN WordErr("Expected word", Unset)
        ELSE WordOk(first_word, IF want_b THEN first_word[2] ELSE Unset)

\* case Word::Type::GENERIC
MatchGeneric(words, t, j, p, word_id, want_b) ==
    With(get_first_word(t, j, p, TRUE), LAMBDA first_word :
        IF first_word[2] - first_word[1] = 0 THEN WordErr("Expected word", Unset)
        ELSE IF word_id = num_words(words) - 1
        THEN WordOk(first_word, IF want_b THEN first_word[2] ELSE Unset)
        ELSE
        With(SkipRepeat(words, word_id + 1), LAMBDA backup_word :
        With(NextWordLoop(words, t, j, word_id, backup_word, first_word[2], p), LAMBDA next_word_match :
            IF next_word_match.err THEN next_word_match
            ELSE With(TrimBack(t, j, next_word_match.m[1]), LAMBDA i :
                     IF i < first_word[1] THEN WordErr("Expected word", Unset)
                     ELSE WordOk(Pair(first_word[1], i), IF want_b THEN i ELSE Unset)))))

\* case Word::Type::EXPAND
MatchExpand(words, t, j, p, word_id, want_b) ==
    LET i == SkipWhile(is_whitespace, t, 0)
    IN  WordOk(Pair(i, i), IF want_b THEN Len(t) + 1 ELSE Unset)

ensure_word_match(words, t, j, p, word_id, want_b) ==
    LET ty == result(type(WordAt(words, word_id)))
    IN  CASE ty = "DIRECT"  -> MatchDirect(words, t, j, p, word_id, want_b)
          [] ty = "GENERIC" -> MatchGeneric(words, t, j, p, word_id, want_b)
          [] ty = "EXPAND"  -> MatchExpand(words, t, j, p, word_id, want_b)
          [] OTHER          -> WordErr("Word is not matchable", Unset)

\* a message is the list of the parts it is concatenated from
Msg(text) == <<text>>

\* CompilationError
CompilationError(pos, message, severity) ==
    [pos |-> pos, message |-> message, severity |-> severity, fix |-> ""]

WordMatch(id, m) == [id |-> id, match |-> m]

\* what match returns: the list of matches, or the pair of the matches found
\* and the error; hung marks a loop that never ends, undefined a read of
\* words[words.size()], after which the build may do anything
MatchOk(res) == [err |-> FALSE, matches |-> res, hung |-> FALSE, undefined |-> FALSE,
                 error |-> CompilationError(StartPos, Msg(""), "NONE")]
MatchErr(res, e) == [err |-> TRUE, matches |-> res, error |-> e, hung |-> FALSE,
                     undefined |-> FALSE]
MatchHung(res) == [err |-> TRUE, matches |-> res, hung |-> TRUE, undefined |-> FALSE,
                   error |-> CompilationError(StartPos, Msg(""), "NONE")]
MatchUndefined(res) == [err |-> TRUE, matches |-> res, hung |-> FALSE, undefined |-> TRUE,
                        error |-> CompilationError(StartPos, Msg(""), "NONE")]

\* mutant: the loop does not go back to the first of the repeating words
BackRepeatNone(words, i) == i

\* while (words[i - 1].repeat().result() == REPEAT) { --i; if (i == 0) break; }
RECURSIVE BackRepeat(_, _)
BackRepeat(words, i) ==
    IF result(repeat(WordAt(words, i - 1))) = "REPEAT"
    THEN (IF i - 1 = 0 THEN 0 ELSE BackRepeat(words, i - 1))
    ELSE i

\* while (words[i].optional().result() == OPTIONAL_LIST_MANDATORY_ONE) ++i;
RECURSIVE SkipList(_, _)
SkipList(words, i) ==
    IF result(optional(WordAt(words, i))) = "OPTIONAL_LIST_MANDATORY_ONE" /\ InWords(words, i)
    THEN SkipList(words, i + 1) ELSE i

\* while (words[i + 1].optional().result() == OPTIONAL_LIST_MANDATORY_ONE) ++i;
RECURSIVE LastOfList(_, _)
LastOfList(words, i) ==
    IF result(optional(WordAt(words, i + 1))) = "OPTIONAL_LIST_MANDATORY_ONE" /\ InWords(words, i + 1)
    THEN LastOfList(words, i + 1) ELSE i

\* the while loop of match; sp is the cursor of str, seen the states
\* (i, pos, repeating) the loop has been in: the loop never ends once it is in
\* one of them again
RECURSIVE MatchLoop(_, _, _, _, _, _, _, _, _)
MatchLoop(words, t, j, sp, i, pos, repeating, res, seen) ==
    IF i >= Len(words) THEN MatchOk(res)
    ELSE IF <<i, pos, repeating>> \in seen THEN MatchHung(res)
    ELSE
    LET word == WordAt(words, i)
        seen1 == seen \cup {<<i, pos, repeating>>}
        Continue(i2, rep2) == MatchLoop(words, t, j, sp, i2, pos, rep2, res, seen1)
    IN
    With(Advance(t, sp, pos), LAMBDA at :
    With(ensure_word_match(words, t, j, at.pos, i, FALSE), LAMBDA word_match :
        IF word_match.err
        THEN IF word = <<>> THEN Continue(i + 1, repeating)
             ELSE IF result(repeat(word)) = "REPEAT_SINGLE"
             THEN IF ~repeating /\ result(optional(word)) # "OPTIONAL"
                  THEN MatchErr(res, CompilationError(at, Msg("Single repeating word not found"), "ERROR"))
                  ELSE Continue(i + 1, FALSE)
             ELSE IF repeating
             THEN \* the word after the repeating words (iF), or the first of
                  \* them (iB)
                  With(IF result(repeat(word)) = "REPEAT" THEN SkipRepeat(words, i) ELSE i, LAMBDA iF :
                  With(ensure_word_match(words, t, j, at.pos, iF, FALSE), LAMBDA mF :
                  With(IF iF > 0 THEN BackRepeat(words, iF) ELSE iF, LAMBDA iB :
                  With(ensure_word_match(words, t, j, at.pos, iB, FALSE), LAMBDA mB :
                      IF result(repeat(word)) = "REPEAT" /\ ~mF.err THEN Continue(iF, repeating)
                      ELSE IF iF > 0 /\ ~mB.err THEN Continue(iB, repeating)
                      ELSE MatchErr(res, CompilationError(at,
                               Msg("Repeating word not found or no closer was found after repeating words"),
                               "ERROR"))))))
             ELSE IF result(optional(word)) = "OPTIONAL" THEN Continue(i + 1, repeating)
             ELSE IF result(optional(word)) = "OPTIONAL_LIST_MANDATORY_ONE"
             THEN IF ~InWords(words, i + 1) \/ SkipList(words, i) >= Len(words)
                  THEN MatchUndefined(res)
                  ELSE IF result(optional(WordAt(words, i + 1))) # "OPTIONAL_LIST_MANDATORY_ONE"
                  THEN MatchErr(res, CompilationError(at,
                           Msg("Word should match at least one option in optional list"), "ERROR"))
                  ELSE Continue(SkipList(words, i), repeating)
             ELSE MatchErr(res, CompilationError(at, <<"Word \"", Payload(word), "\" not found">>, "ERROR"))
        ELSE
        With(IF result(optional(word)) = "OPTIONAL_LIST_MANDATORY_ONE"
             THEN LastOfList(words, i) ELSE i, LAMBDA i1 :
        With(result(repeat(WordAt(words, i1))), LAMBDA rp :
        With(Append(res, WordMatch(i, word_match.m)), LAMBDA res1 :
            IF result(optional(word)) = "OPTIONAL_LIST_MANDATORY_ONE" /\ i1 + 1 >= Len(words)
            THEN MatchUndefined(res1)
            ELSE
            MatchLoop(words, t, j, sp,
                      IF rp \in {"ONCE", "REPEAT"} THEN i1 + 1 ELSE i1,
                      word_match.m[2],
                      IF rp = "ONCE" THEN FALSE ELSE IF rp \in {"REPEAT", "REPEAT_SINGLE"} THEN TRUE ELSE repeating,
                      res1, seen1))))))

\* mutant: a rule that is not valid is matched all the same
match_unchecked(words, t, j, sp) ==
    MatchLoop(words, t, j, sp, 0, 0, FALSE, <<>>, {})

\* Rule::match on a Source made of the text t, with its cursor at sp; such a
\* Source holds the terminator at least, so that str.empty() is false
match(words, t, j, sp) ==
    With(is_valid(words), LAMBDA valid :
        IF valid # NoError
        THEN MatchErr(<<>>, CompilationError(StartPos, Msg(valid.message), "SYSTEM_ERROR"))
        ELSE MatchLoop(words, t, j, sp, 0, 0, FALSE, <<>>, {}))

(***************************************************************************)
(* Template expansion: the counter extension and expand_generic.  ext is   *)
(* the state of the System's extensions: whether EXPAND_COUNT is           *)
(* registered, its count and its named counts (a set of <<name, value>>).  *)
(* A GenericValueMap is a list of <<name, values>> with distinct names.     *)
(***************************************************************************)
NoExtensions == [enabled |-> FALSE, count |-> 0, counts |-> {}]

\* enable_default_extensions
enable_default_extensions(ext) == [enabled |-> TRUE, count |-> 0, counts |-> {}]

DigitOf(d) == CASE d = 0 -> "0" [] d = 1 -> "1" [] d = 2 -> "2" [] d = 3 -> "3" [] d = 4 -> "4"
                [] d = 5 -> "5" [] d = 6 -> "6" [] d = 7 -> "7" [] d = 8 -> "8" [] OTHER -> "9"

\* std::to_string of a size_t
RECURSIVE to_string(_)
to_string(n) == IF n < 10 THEN <<DigitOf(n)>> ELSE to_string(n \div 10) \o <<DigitOf(n % 10)>>

\* the value an expansion gives, the error it returns, the exception it
\* throws, or a loop that does not end; ext is the extensions' state after it
ExpOk(value, ext) == [kind |-> "ok", value |-> value, message |-> Msg(""), ext |-> ext]
ExpErr(message, ext) == [kind |-> "error", value |-> <<>>, message |-> message, ext |-> ext]
ExpThrows(what, ext) == [kind |-> "throws", value |-> <<>>, message |-> Msg(what), ext |-> ext]
ExpHung(ext) == [kind |-> "hung", value |-> <<>>, message |-> Msg(""), ext |-> ext]

HasCount(ext, var) == \E c \in ext.counts : c[1] = var
CountOf(ext, var) == (CHOOSE c \in ext.counts : c[1] = var)[2]

RESET == <<"R", "E", "S", "E", "T">>

\* mutant: RESET leaves the default counter at zero
CountResetToZero(ext, j, params) ==
    IF params = <<>> THEN ExpOk(to_string(ext.count), [ext EXCEPT !.count = @ + 1])
    ELSE
    With(get_first_word(params, j, 0, FALSE), LAMBDA word :
    With(SubStr(params, word[1], word[2] - word[1]), LAMBDA var :
        IF word[2] = 0 THEN ExpErr(Msg("No word to expand"), ext)
        ELSE IF var = RESET
        THEN ExpOk(to_string(0), [ext EXCEPT !.count = 0, !.counts = {}])
        ELSE IF ~HasCount(ext, var)
        THEN ExpOk(to_string(0), [ext EXCEPT !.counts = @ \cup {<<var, 1>>}])
        ELSE ExpOk(to_string(CountOf(ext, var)),
                   [ext EXCEPT !.counts = (@ \ {<<var, CountOf(ext, var)>>})
                                           \cup {<<var, CountOf(ext, var) + 1>>}])))

\* mutant: a call returns the value after the increment
CountPreIncrement(ext, j, params) ==
    IF params = <<>> THEN ExpOk(to_string(ext.count + 1), [ext EXCEPT !.count = @ + 1])
    ELSE CountResetToZero(ext, j, params)

\* ExpandCountExtension::operator()
ExpandCountExtension(ext, j, params) ==
    IF params = <<>> THEN ExpOk(to_string(ext.count), [ext EXCEPT !.count = @ + 1])
    ELSE
    With(get_first_word(params, j, 0, FALSE), LAMBDA word :
    With(SubStr(params, word[1], word[2] - word[1]), LAMBDA var :
        IF word[2] = 0 THEN ExpErr(Msg("No word to expand"), ext)
        ELSE IF var = RESET
        THEN ExpOk(to_string(0), [ext EXCEPT !.count = 1, !.counts = {}])
        ELSE IF ~HasCount(ext, var)
        THEN ExpOk(to_string(0), [ext EXCEPT !.counts = @ \cup {<<var, 1>>}])
        ELSE ExpOk(to_string(CountOf(ext, var)),
                   [ext EXCEPT !.counts = (@ \ {<<var, CountOf(ext, var)>>})
                                           \cup {<<var, CountOf(ext, var) + 1>>}])))

EXPAND_COUNT == <<"E", "X", "P", "A", "N", "D", "_", "C", "O", "U", "N", "T">>

\* extensions.find(name) != extensions.end()
HasExtension(ext, name) == ext.enabled /\ name = EXPAND_COUNT

\* expand_vars.find(name) != expand_vars.end()
HasVar(expand_vars, name) == \E k \in 1 .. Len(expand_vars) : expand_vars[k][1] = name
\* expand_vars.at(name), for a name the map holds
VarOf(expand_vars, name) == expand_vars[CHOOSE k \in 1 .. Len(expand_vars) : expand_vars[k][1] = name][2]

\* expand_vars[name].emplace_back(value)
AddVar(expand_vars, name, value) ==
    IF HasVar(expand_vars, name)
    THEN [k \in 1 .. Len(expand_vars) |->
            IF expand_vars[k][1] = name THEN <<name, Append(expand_vars[k][2], value)>> ELSE expand_vars[k]]
    ELSE Append(expand_vars, <<name, <<value>>>>)

Infinite == -1
\* std::min(max_iterations, n), max_iterations starting at (size_t)-1
MinIter(m, n) == IF m = Infinite THEN n ELSE Min(m, n)

RECURSIVE expand_generic(_, _, _, _)

\* what the scan of a group has collected
Scanned(words_in_expr, exprs_to_expand, max_iterations) ==
    [stopped |-> FALSE, words |-> words_in_expr, exprs |-> exprs_to_expand,
     max |-> max_iterations, with |-> ExpOk(<<>>, NoExtensions)]
\* the scan of a group left expand_generic with r
ScanStopped(r) == [stopped |-> TRUE, words |-> <<>>, exprs |-> <<>>, max |-> 0, with |-> r]

\* the first for loop of the group branch, from index i up to stop
RECURSIVE GroupScan(_, _, _, _, _, _, _, _, _)
GroupScan(str, expand_vars, ext, j, i, stop, words_in_expr, exprs_to_expand, max_iterations) ==
    IF i >= stop THEN Scanned(words_in_expr, exprs_to_expand, max_iterations)
    ELSE IF At(str, i) # "$"
    THEN GroupScan(str, expand_vars, ext, j, i + 1, stop, words_in_expr, exprs_to_expand, max_iterations)
    ELSE
    With(get_first_word(SubStr(str, i + 1, -1), j, 0, TRUE), LAMBDA w0 :
    With(Pair(w0[1] + i + 1, w0[2] + i + 1), LAMBDA word_to_expand :
    With(At(str, word_to_expand[1]), LAMBDA c :
    With(SubStr(str, word_to_expand[1], word_to_expand[2] - word_to_expand[1]), LAMBDA sub :
    With(Append(exprs_to_expand, Pair(word_to_expand[1] - 1, word_to_expand[2])), LAMBDA exprs1 :
        IF c = "("
        THEN With(expand_generic(sub, expand_vars, ext, j), LAMBDA expand_result :
                 IF expand_result.kind # "ok" THEN ScanStopped(expand_result)
                 ELSE GroupScan(str, expand_vars, ext, j, word_to_expand[2], stop,
                                Append(words_in_expr, <<expand_result.value, "DIRECT">>),
                                exprs1, max_iterations))
        ELSE IF is_alpha(c)
        THEN IF ~HasVar(expand_vars, sub)
             THEN ScanStopped(ExpThrows("std::out_of_range", ext))
             ELSE GroupScan(str, expand_vars, ext, j, word_to_expand[2], stop,
                            Append(words_in_expr, <<sub, "GENERIC">>), exprs1,
                            MinIter(max_iterations, Len(VarOf(expand_vars, sub))))
        ELSE ScanStopped(ExpErr(Msg("Invalid expression after $"), ext)))))))

\* the inner for loop of the group branch: the words of one iteration, from
\* word i on; acc holds res and last_word_end
RECURSIVE GroupWords(_, _, _, _, _, _, _)
GroupWords(str, expand_vars, words_in_expr, exprs_to_expand, iteration, i, acc) ==
    IF i > Len(words_in_expr) THEN acc
    ELSE LET lit == IF exprs_to_expand[i][1] > acc.last_word_end
                    THEN SubStr(str, acc.last_word_end, exprs_to_expand[i][1] - acc.last_word_end)
                    ELSE <<>>
             val == IF words_in_expr[i][2] = "DIRECT" THEN words_in_expr[i][1]
                    ELSE VarOf(expand_vars, words_in_expr[i][1])[iteration + 1]
         IN  GroupWords(str, expand_vars, words_in_expr, exprs_to_expand, iteration, i + 1,
                        [res |-> acc.res \o lit \o val, last_word_end |-> exprs_to_expand[i][2]])

\* the outer for loop of the group branch; second is expr_to_expand.second
RECURSIVE GroupIterate(_, _, _, _, _, _, _, _)
GroupIterate(str, expand_vars, words_in_expr, exprs_to_expand, max_iterations, second, iteration, acc) ==
    IF iteration >= max_iterations THEN acc.res
    ELSE LET a1 == GroupWords(str, expand_vars, words_in_expr, exprs_to_expand, iteration, 1, acc)
             back == exprs_to_expand[Len(exprs_to_expand)]
             rest == IF back[2] < second - 1 THEN SubStr(str, back[2], second - back[2] - 1) ELSE <<>>
         IN  GroupIterate(str, expand_vars, words_in_expr, exprs_to_expand, max_iterations, second,
                          iteration + 1, [res |-> a1.res \o rest, last_word_end |-> a1.last_word_end])

\* the branch of expand_generic for "(": with no capture in the group
\* max_iterations stays (size_t)-1 and the loop does not end
GroupCase(str, expand_vars, ext, j, expr_to_expand) ==
    With(GroupScan(str, expand_vars, ext, j, expr_to_expand[1] + 1, expr_to_expand[2] - 1,
                   <<>>, <<>>, Infinite), LAMBDA s :
        IF s.stopped THEN s.with
        ELSE IF s.max = Infinite THEN ExpHung(ext)
        ELSE ExpOk(GroupIterate(str, expand_vars, s.words, s.exprs, s.max, expr_to_expand[2], 0,
                                [res |-> <<>>, last_word_end |-> 1]), ext))

\* the branch of expand_generic for a name
NameCase(str, expand_vars, ext, j, expr_to_expand) ==
    With(SubStr(str, expr_to_expand[1], expr_to_expand[2] - expr_to_expand[1]), LAMBDA var_name :
        IF HasExtension(ext, var_name)
        THEN With(get_first_word(SubStr(str, expr_to_expand[2], -1), j, 0, TRUE), LAMBDA p0 :
             With(Pair(p0[1] + expr_to_expand[2], p0[2] + expr_to_expand[2]), LAMBDA params_expr :
                 \* the extension is called with the text between the
                 \* brackets that follow the name, if any
                 ExpandCountExtension(ext, j,
                     IF At(str, params_expr[1]) = "("
                     THEN SubStr(str, params_expr[1] + 1, params_expr[2] - 1) ELSE <<>>)))
        ELSE IF ~HasVar(expand_vars, var_name)
        THEN ExpErr(<<"\"", var_name, "\" is not a variable or extension">>, ext)
        ELSE IF VarOf(expand_vars, var_name) = <<>>
        THEN ExpErr(<<"Variable \"", var_name, "\" has no value(s)">>, ext)
        ELSE ExpOk(Head(VarOf(expand_vars, var_name)), ext))

expand_generic(str, expand_vars, ext, j) ==
    With(get_first_word(str, j, 0, TRUE), LAMBDA expr_to_expand :
        IF expr_to_expand[2] - expr_to_expand[1] = 0
        THEN ExpErr(Msg("Expected expression after $"), ext)
        ELSE IF At(str, expr_to_expand[1]) = "("
        THEN GroupCase(str, expand_vars, ext, j, expr_to_expand)
        ELSE IF is_alpha(At(str, expr_to_expand[1]))
        THEN NameCase(str, expand_vars, ext, j, expr_to_expand)
        ELSE ExpErr(Msg("Invalid expression after $"), ext))

(***************************************************************************)
(* System::parse.  A System is its rules and the state of its extensions.  *)
(* parse returns the text, or the list of errors; it can also leave by an  *)
(* exception, never return, or read outside a vector (undefined).          *)
(***************************************************************************)
MaxDepth == 3

\* a match score n / d as the float compares it
Score(n, d) == <<n, d>>
\* mutant: a rule of the same score replaces the rule found before
ScoreLessOrEqual(a, b) == a[1] * b[2] <= b[1] * a[2]

ScoreLess(a, b) == a[1] * b[2] < b[1] * a[2]
Zero == Score(0, 1)
One == Score(1, 1)
Two == Score(2, 1)

\* the state of the loop over the rules
Found(found_rule, found_words, best_match_score, rule_match_error, left) ==
    [found_rule |-> found_rule, found_words |-> found_words,
     best_match_score |-> best_match_score, rule_match_error |-> rule_match_error, left |-> left]

\* the for loop over the rules, from rule k on, for the cursor sp
RECURSIVE RuleLoop(_, _, _, _, _, _)
RuleLoop(rules, t, j, sp, k, f) ==
    IF k > Len(rules) THEN f
    ELSE
    With(match(rules[k], t, j, sp), LAMBDA _found_words :
    With(_found_words.matches, LAMBDA r :
    With(Len(rules[k]), LAMBDA size :
        IF _found_words.hung THEN [f EXCEPT !.left = "hung"]
        ELSE IF _found_words.undefined THEN [f EXCEPT !.left = "undefined"]
        ELSE IF r = <<>>
        THEN RuleLoop(rules, t, j, sp, k + 1,
                      IF f.best_match_score = Zero /\ f.rule_match_error.message = Msg("")
                      THEN [f EXCEPT !.rule_match_error = _found_words.error] ELSE f)
        ELSE
        With(r[Len(r)].id + 1 = size, LAMBDA full :
        With(IF ~full THEN Score(r[Len(r)].id + 1, size)
             ELSE IF result(type(WordAt(rules[k], size - 2))) = "DIRECT" THEN Two
             ELSE One, LAMBDA match_score :
        With(ScoreLess(f.best_match_score, match_score), LAMBDA better :
        With(IF better THEN match_score ELSE f.best_match_score, LAMBDA best :
        With(Found(IF better THEN k ELSE f.found_rule,
                   IF better THEN r ELSE f.found_words,
                   best,
                   IF ScoreLess(best, One) THEN _found_words.error ELSE f.rule_match_error,
                   "no"), LAMBDA f1 :
            IF full /\ size < 2 THEN [f EXCEPT !.left = "undefined"]
            ELSE IF best = Two THEN f1
            ELSE RuleLoop(rules, t, j, sp, k + 1, f1)))))))))

\* the captures of the matched words: expand_vars of parse
RECURSIVE Captures(_, _, _, _, _, _)
Captures(words, t, j, found_words, k, expand_vars) ==
    IF k > Len(found_words) THEN expand_vars
    ELSE Captures(words, t, j, found_words, k + 1,
           IF result(type(WordAt(words, found_words[k].id))) = "GENERIC"
           THEN AddVar(expand_vars, Payload(WordAt(words, found_words[k].id)),
                       RawSub(t, j, found_words[k].match[1],
                              found_words[k].match[2] - found_words[k].match[1]))
           ELSE expand_vars)

\* what the loop over the template leaves: the expanded text, or the error
\* of an expansion (failed), or how parse is left
Expanded(expand, failed, message, left, what, ext) ==
    [expand |-> expand, failed |-> failed, message |-> message, left |-> left,
     what |-> what, ext |-> ext]

\* the for loop over the template, from index jx on
RECURSIVE TemplateLoop(_, _, _, _, _)
TemplateLoop(expand, jx, expand_vars, ext, j) ==
    IF jx >= Len(expand) THEN Expanded(expand, FALSE, Msg(""), "no", "", ext)
    ELSE IF At(expand, jx) # "$" THEN TemplateLoop(expand, jx + 1, expand_vars, ext, j)
    ELSE
    LET j1 == jx + 1
        out_of_range == Expanded(<<>>, FALSE, Msg(""), "throws", "std::out_of_range", ext)
    IN
    With(get_first_word(SubStr(expand, j1, -1), j, 0, TRUE), LAMBDA e0 :
    With(Pair(e0[1] + j1, e0[2] + j1), LAMBDA expand_expr :
        IF expand_expr[2] > Len(expand) THEN out_of_range
        ELSE
        With(get_first_word(SubStr(expand, expand_expr[2], -1), j, 0, FALSE), LAMBDA p0 :
        With(Pair(p0[1] + expand_expr[2], p0[2] + expand_expr[2]), LAMBDA params_expr :
        With(At(expand, params_expr[1]) = "(", LAMBDA with_params :
            IF with_params /\ j1 + expand_expr[2] > Len(expand) THEN out_of_range
            ELSE
            With(IF with_params
                 THEN get_first_word(SubStr(expand, j1 + expand_expr[2], -1), j, 0, TRUE)[2]
                      + j1 + expand_expr[2]
                 ELSE expand_expr[2], LAMBDA second :
            With(expand_generic(SubStr(expand, expand_expr[1], second - expand_expr[1]),
                                expand_vars, ext, j), LAMBDA expand_result :
                IF expand_result.kind = "error"
                THEN Expanded(<<>>, TRUE, expand_result.message, "no", "", expand_result.ext)
                ELSE IF expand_result.kind # "ok"
                THEN Expanded(<<>>, FALSE, Msg(""), expand_result.kind, expand_result.message[1],
                              expand_result.ext)
                ELSE IF second > Len(expand) THEN out_of_range
                ELSE TemplateLoop(SubStr(expand, 0, j1 - 1) \o expand_result.value
                                     \o SubStr(expand, second, -1),
                                  j1 - 1 + Len(expand_result.value) + 1,
                                  expand_vars, expand_result.ext, j))))))))

\* while (is_whitespace(*str)) ++str;
RECURSIVE SkipSpace(_, _)
SkipSpace(t, sp) ==
    IF is_whitespace(At(t, sp.pos)) /\ ~reached_end(t, sp) THEN SkipSpace(t, Inc(t, sp)) ELSE sp

\* what a pass of the loop of parse found at the cursor at: whether a quoted
\* string, else found_rule, found_words and best_match_score
Seen(at, quoted, found_rule, found_words, best_match_score) ==
    [at |-> at, quoted |-> quoted, found_rule |-> found_rule, found_words |-> found_words,
     best_match_score |-> best_match_score]
NoPass == Seen(StartPos, FALSE, 0, <<>>, Zero)

\* the state of one invocation of parse: the cursor str, res, errors, and
\* kind: "running", or how the invocation ended ("text", "errors", "throws",
\* "hung", "undefined", or "deep" for a recursion below MaxDepth); what is
\* the exception of "throws" and the vector read outside of "undefined"
Driver(kind, str, res, errors, ex, what) ==
    [kind |-> kind, str |-> str, res |-> res, errors |-> errors, ext |-> ex, what |-> what,
     pass |-> NoPass]

\* the for loop's ++str after a pass
Pass(t, str, res, errors, ex) == Driver("running", Inc(t, str), res, errors, ex, "")
\* mutant: a parse that recorded errors returns its text
LeftAsText(d, kind, what, ex) ==
    [d EXCEPT !.kind = IF kind = "errors" THEN "text" ELSE kind, !.what = what, !.ext = ex,
              !.pass = NoPass]

Left(d, kind, what, ex) == [d EXCEPT !.kind = kind, !.what = what, !.ext = ex, !.pass = NoPass]

\* mutant: the errors of the nested parse keep their positions
RelocatedAsIs(t, str, errs) == errs

\* errors.emplace_back((str + err.pos.pos).pos, err.message, err.severity, err.fix)
Relocated(t, str, errs) ==
    [k \in 1 .. Len(errs) |-> [errs[k] EXCEPT !.pos = Advance(t, str, errs[k].pos.pos)]]

RECURSIVE parse(_, _, _, _, _, _, _)

\* mutant: the quoted string is copied with its quotes
QuoteCaseKeepQuotes(t, j, d, str) ==
    With(get_first_word(t, j, str.pos, TRUE), LAMBDA word :
    With(word[2] - word[1], LAMBDA n :
        Pass(t, IF word[2] > str.pos THEN Advance(t, str, word[2] - str.pos) ELSE str,
             d.res \o RawSub(t, j, word[1], n), d.errors, d.ext)))

\* the branch of parse for a quoted string at the cursor
QuoteCase(t, j, d, str) ==
    With(get_first_word(t, j, str.pos, TRUE), LAMBDA word :
    With(word[2] - word[1] - 2, LAMBDA n :
        IF n < 0 THEN Left(d, "throws", "std::length_error", d.ext)
        ELSE Pass(t, IF word[2] > str.pos THEN Advance(t, str, word[2] - str.pos) ELSE str,
                  d.res \o RawSub(t, j, word[1] + 1, n), d.errors, d.ext)))

\* mutant: the expanded text is appended as it is, not parsed again
ExpandCaseNoReparse(rules, t, j, d, str, f, depth) ==
    LET words == rules[f.found_rule]
        back == f.found_words[Len(f.found_words)].match[2]
        prev == f.found_words[Len(f.found_words) - 1].match[2]
    IN
    With(Captures(words, t, j, f.found_words, 1, <<>>), LAMBDA expand_vars :
    With(TemplateLoop(Payload(words[Len(words)]), 0, expand_vars, d.ext, j), LAMBDA x :
    With(IF x.failed THEN Append(d.errors, CompilationError(str, x.message, "ERROR"))
         ELSE d.errors, LAMBDA errors1 :
        IF x.left # "no" THEN Left(d, x.left, x.what, x.ext)
        ELSE IF x.expand = <<>> THEN Pass(t, Advance(t, str, back - str.pos), d.res, errors1, x.ext)
        ELSE IF Len(f.found_words) < 2 THEN Left(d, "undefined", "found_words", x.ext)
        ELSE Pass(t, IF prev > str.pos THEN Advance(t, str, prev - str.pos) ELSE str,
                  d.res \o x.expand, errors1, x.ext))))

\* the branch of parse for a rule that matched in full
ExpandCase(rules, t, j, d, str, f, depth) ==
    LET words == rules[f.found_rule]
        back == f.found_words[Len(f.found_words)].match[2]
        prev == f.found_words[Len(f.found_words) - 1].match[2]
    IN
    With(Captures(words, t, j, f.found_words, 1, <<>>), LAMBDA expand_vars :
    With(TemplateLoop(Payload(words[Len(words)]), 0, expand_vars, d.ext, j), LAMBDA x :
    With(IF x.failed THEN Append(d.errors, CompilationError(str, x.message, "ERROR"))
         ELSE d.errors, LAMBDA errors1 :
        IF x.left # "no" THEN Left(d, x.left, x.what, x.ext)
        ELSE IF x.expand = <<>> THEN Pass(t, Advance(t, str, back - str.pos), d.res, errors1, x.ext)
        ELSE
        With(parse(rules, x.expand, j, StartPos, x.ext, FALSE, depth + 1), LAMBDA parse_result :
            IF parse_result.kind \notin {"text", "errors"}
            THEN Left(d, parse_result.kind, parse_result.what, parse_result.ext)
            ELSE IF Len(f.found_words) < 2 THEN Left(d, "undefined", "found_words", parse_result.ext)
            ELSE Pass(t, IF prev > str.pos THEN Advance(t, str, prev - str.pos) ELSE str,
                      IF parse_result.kind = "text" THEN d.res \o parse_result.res ELSE d.res,
                      IF parse_result.kind = "errors"
                      THEN Append(errors1,
                                  CompilationError(str, <<"Found ", to_string(Len(parse_result.errors)),
                                                          " errors while parsing expanded string:">>,
                                                   "ERROR"))
                           \o Relocated(t, str, parse_result.errors)
                      ELSE errors1,
                      parse_result.ext)))))

\* the branch of parse for a cursor where no rule matched in full
NoMatchCase(t, j, d, str, f) ==
    LET word == get_first_word(t, j, str.pos, TRUE)
        back == f.found_words[Len(f.found_words)].match[2]
    IN  IF f.found_words = <<>>
        THEN Pass(t, Advance(t, str, word[2] - str.pos), d.res,
                  Append(d.errors, f.rule_match_error), d.ext)
        ELSE IF back > str.pos
        THEN Pass(t, Advance(t, str, back - str.pos), d.res,
                  Append(d.errors, f.rule_match_error), d.ext)
        ELSE Pass(t, str, d.res, d.errors, d.ext)

\* one pass of the for loop of parse, its condition and its ++str included
ParseIter(rules, t, j, d, instant_fail, depth) ==
    IF reached_end(t, d.str)
    THEN Left(d, IF d.errors # <<>> THEN "errors" ELSE "text", "", d.ext)
    ELSE IF d.errors # <<>> /\ instant_fail THEN Left(d, "errors", "", d.ext)
    ELSE
    With(SkipSpace(t, d.str), LAMBDA str :
        IF At(t, str.pos) = "\""
        THEN [QuoteCase(t, j, d, str) EXCEPT !.pass = Seen(str, TRUE, 0, <<>>, Zero)]
        ELSE
        With(RuleLoop(rules, t, j, str, 1,
                      Found(0, <<>>, Zero, CompilationError(StartPos, Msg(""), "ERROR"), "no")),
             LAMBDA f :
        With(Seen(str, FALSE, f.found_rule, f.found_words, f.best_match_score), LAMBDA seen :
            IF f.left # "no" THEN Left(d, f.left, IF f.left = "undefined" THEN "words" ELSE "", d.ext)
            ELSE IF ~ScoreLess(f.best_match_score, One)
            THEN [ExpandCase(rules, t, j, d, str, f, depth) EXCEPT !.pass = seen]
            ELSE [NoMatchCase(t, j, d, str, f) EXCEPT !.pass = seen])))

\* the for loop of parse
RECURSIVE ParseRun(_, _, _, _, _, _)
ParseRun(rules, t, j, d, instant_fail, depth) ==
    IF d.kind # "running" THEN d
    ELSE ParseRun(rules, t, j, ParseIter(rules, t, j, d, instant_fail, depth), instant_fail, depth)

\* System::parse(Source str, instant_fail) of a System with these rules and
\* extensions, on the text t with the cursor at sp
parse(rules, t, j, sp, ext, instant_fail, depth) ==
    IF depth > MaxDepth THEN Driver("deep", sp, <<>>, <<>>, ext, "")
    ELSE With(ParseRun(rules, t, j, Driver("running", sp, <<>>, <<>>, ext, ""),
                       instant_fail, depth), LAMBDA d :
             IF d.kind = "text" THEN [d EXCEPT !.errors = <<>>]
             ELSE IF d.kind = "errors" THEN [d EXCEPT !.res = <<>>]
             ELSE d)

(***************************************************************************)
(* The System as a state machine: Rules are constructed, Rule::match and   *)
(* the counter extension are called, and System::parse runs one pass of    *)
(* its loop at a time.                                                     *)
(***************************************************************************)
MaxWords == 4
MaxItems == 2
MaxCount == 3

\* the byte behind the terminator of a string a Source is made from
Junk == {NUL, ")"}

\* the words of the rule-level runs: built by Word(const std::string&), the
\* last one by the four-argument constructor (a repeating EXPAND word)
WordPool ==
    { WordOfString(<<" ", " ", " ", "f">>), WordOfString(<<" ", "*", "$", "v">>), WordOfString(<<" ", "#", " ", ",">>), WordOfString(<<"?", " ", " ", ",">>),
      WordOfString(<<" ", " ", "+", "\"", "x", "\"">>), Word(<<"x">>, "MANDATORY", "REPEAT", "EXPAND") }

RECURSIVE WordLists(_)
\* the lists of n words
WordLists(n) ==
    IF n = 0 THEN {<<>>}
    ELSE {Append(l, w) : l \in WordLists(n - 1), w \in WordPool}

AllWordLists == UNION {WordLists(n) : n \in 1 .. MaxWords}

RuleTexts == { <<"f", " ", "1">>, <<"1", ",", ",", "f">> }

\* f ( v* ,* ) with a template
FRule(template) == <<WordOfString(<<" ", " ", " ", "f">>), WordOfString(<<" ", " ", " ", "(">>), WordOfString(<<" ", "*", "$", "v">>),
                     WordOfString(<<" ", "*", " ", ",">>), WordOfString(<<" ", " ", " ", ")">>),
                     WordOfString(<<" ", " ", "+">> \o template)>>

\* a ( x , y ) with the template "m"
ARule == <<WordOfString(<<" ", " ", " ", "a">>), WordOfString(<<" ", " ", " ", "(">>), WordOfString(<<" ", " ", "$", "x">>), WordOfString(<<" ", " ", " ", ",">>),
           WordOfString(<<" ", " ", "$", "y">>), WordOfString(<<" ", " ", " ", ")">>), WordOfString(<<" ", " ", "+", "\"", "m", "\"">>)>>
\* n with the template "$EXPAND_COUNT"
NRule == <<WordOfString(<<" ", " ", " ", "n">>), WordOfString(<<" ", " ", "+", "\"", "$", "E", "X", "P", "A", "N", "D", "_", "C", "O", "U", "N", "T", "\"">>)>>
\* n with the template x, which no rule matches
XRule == <<WordOfString(<<" ", " ", " ", "n">>), WordOfString(<<" ", " ", "+", "x">>)>>
\* n x, with no EXPAND word
BadRule == <<WordOfString(<<" ", " ", " ", "n">>), WordOfString(<<" ", " ", "$", "x">>)>>

\* the rule lists of the system-level runs
Systems ==
    { <<FRule(<<"\"", "$", "(", "$", "v", ",", ")", "\"">>)>>, <<FRule(<<"$", "(", "$", "v", ",", ")">>)>>, <<FRule(<<"$", "n", "o", "p", "e">>)>>, <<FRule(<<"$", "(", "$", "n", "o", "p", "e", ")">>)>>,
      <<ARule>>, <<NRule>>, <<BadRule>>, <<>>,
      <<ARule, FRule(<<"\"", "$", "(", "$", "v", ",", ")", "\"">>)>>, <<BadRule, FRule(<<"\"", "$", "(", "$", "v", ",", ")", "\"">>)>>, <<FRule(<<"$", "(", "$", "v", ",", ")">>), FRule(<<"\"", "$", "(", "$", "v", ",", ")", "\"">>)>>,
      <<NRule, ARule>>, <<XRule>> }

Items == {<<"1">>, <<"a", "b">>}

RECURSIVE ItemLists(_)
ItemLists(n) ==
    IF n = 0 THEN {<<>>}
    ELSE {Append(l, x) : l \in ItemLists(n - 1), x \in Items}

RECURSIVE Joined(_)
\* x1,x2,...,xn
Joined(items) ==
    IF items = <<>> THEN <<>>
    ELSE IF Len(items) = 1 THEN items[1]
    ELSE items[1] \o <<",">> \o Joined(Tail(items))

\* the text f(x1,...,xn)
FText(items) == <<"f", "(">> \o Joined(items) \o <<")">>

FTexts == {FText(items) : items \in UNION {ItemLists(n) : n \in 1 .. MaxItems}}

\* f(1,2,3)
F123 == FText(<<<<"1">>, <<"2">>, <<"3">>>>)

Texts == FTexts \cup {F123} \cup { <<"\"", "a", "(", "b", ",", "c", ")", "\"">>, <<"\"", "f", "(", "1", ")", "\"">>, <<"a", "(", "b", ",", "c", ")">>, <<"n", " ", "n">>, <<"n", ",", "n">>, <<"f", "(", ")">>, <<" ", "f", "(", "1", ")", " ", "x">>, <<"f", "(", "1", ")", " ", "x">>, <<"f", "o", "(", "1", ")">>, <<"\"">>, <<"n", " ", "\"", "a", "(", "b", ",", "c", ")", "\"", " ", "n">>, <<"\"", "a", "\\", "\"", "b", "\"", " ", "n">> }

Params == {<<>>, RESET, <<"k">>, <<"m">>, <<" ">>}

NoCall == [op |-> "none"]
NoDriver == [text |-> <<>>, junk |-> NUL, instant_fail |-> FALSE,
             d |-> Driver("idle", StartPos, <<>>, <<>>, NoExtensions, "")]

NoSystem == [made |-> FALSE, given |-> <<>>, rules |-> <<>>, ext |-> NoExtensions]

InitSystem ==
    /\ bufs = <<>> /\ heap = <<>> /\ fault = "none" /\ ops = 0 /\ last = <<>>
    /\ system = NoSystem
    /\ call = NoCall
    /\ drv = NoDriver

bufvars == <<bufs, heap, fault, ops, last>>

Idle == system.made /\ call = NoCall /\ drv = NoDriver

\* System sys{{Rule{words...}, ...}}: each Rule is constructed from its words
NewSystem(given) ==
    /\ system' = [made |-> TRUE, given |-> given,
                  rules |-> [k \in 1 .. Len(given) |-> Rule(given[k])], ext |-> NoExtensions]
    /\ call' = NoCall /\ drv' = NoDriver
    /\ UNCHANGED bufvars

\* sys.enable_default_extensions()
EnableDefaultExtensions ==
    /\ Idle /\ ~system.ext.enabled
    /\ system' = [system EXCEPT !.ext = enable_default_extensions(@)]
    /\ call' = NoCall /\ drv' = NoDriver
    /\ UNCHANGED bufvars

\* rules[k].match(Source{t} + p)
Match(k, t, j, p) ==
    /\ call' = [op |-> "match", rule |-> k, text |-> t, junk |-> j, pos |-> p,
                result |-> match(system.rules[k], t, j, Advance(t, StartPos, p))]
    /\ drv' = NoDriver
    /\ UNCHANGED <<system, bufvars>>

\* a call of the counter extension with these parameters; nth numbers the
\* calls without parameters made so far if every call so far was one, else 0
Count(params, j) ==
    /\ \E r \in {ExpandCountExtension(system.ext, j, params)} :
           /\ call' = [op |-> "count", params |-> params, before |-> system.ext,
                       result |-> r,
                       nth |-> IF params # <<>> THEN 0
                               ELSE IF call = NoCall THEN 1
                               ELSE IF call.nth = 0 THEN 0 ELSE call.nth + 1]
           /\ system' = [system EXCEPT !.ext = r.ext]
    /\ drv' = NoDriver
    /\ UNCHANGED bufvars

\* the counters are below the bound of the model
CanCount == /\ system.ext.count < MaxCount
            /\ \A c \in system.ext.counts : c[2] < MaxCount

\* sys.parse(Source{t}, instant_fail) is entered
ParseBegin(t, j, instant_fail) ==
    /\ drv' = [text |-> t, junk |-> j, instant_fail |-> instant_fail,
               d |-> Driver("running", StartPos, <<>>, <<>>, system.ext, "")]
    /\ call' = NoCall
    /\ UNCHANGED <<system, bufvars>>

\* one pass of the loop of parse, or its return
ParseStep ==
    /\ drv.d.kind = "running"
    /\ \E d \in {ParseIter(system.rules, drv.text, drv.junk, drv.d, drv.instant_fail, 0)} :
           /\ drv' = [drv EXCEPT !.d = d]
           /\ system' = [system EXCEPT !.ext = d.ext]
    /\ UNCHANGED <<call, bufvars>>

\* the caller lets go of what the last call returned
Discard ==
    /\ system.made /\ drv.d.kind # "running" /\ (call # NoCall \/ drv # NoDriver)
    /\ call' = NoCall /\ drv' = NoDriver
    /\ UNCHANGED <<system, bufvars>>

\* a System of one Rule, made of any words
NextRule ==
    \/ ~system.made /\ \E words \in AllWordLists : NewSystem(<<words>>)
    \/ Idle /\ \E t \in RuleTexts : Match(1, t, NUL, 0)
    \/ Idle /\ \E t \in RuleTexts : ParseBegin(t, NUL, FALSE)
    \/ ParseStep
    \/ Discard

SpecRule == InitSystem /\ [][NextRule]_vars

\* a System of the rules of the example
NextSystem ==
    \/ ~system.made /\ \E given \in Systems : NewSystem(given)
    \/ EnableDefaultExtensions
    \/ Idle /\ \E k \in 1 .. Len(system.rules), t \in Texts, j \in Junk, p \in 0 .. 1 :
          Match(k, t, j, p)
    \/ Idle /\ CanCount /\ \E t \in Texts, j \in Junk, instant_fail \in BOOLEAN :
          ParseBegin(t, j, instant_fail)
    \/ ParseStep
    \/ Discard

SpecSystem == InitSystem /\ [][NextSystem]_vars

\* a System with the default extensions and no rules
InitCounter ==
    /\ bufs = <<>> /\ heap = <<>> /\ fault = "none" /\ ops = 0 /\ last = <<>>
    /\ system = [made |-> TRUE, given |-> <<>>, rules |-> <<>>,
                 ext |-> enable_default_extensions(NoExtensions)]
    /\ call = NoCall
    /\ drv = NoDriver

NextCounter ==
    \/ CanCount /\ \E params \in Params, j \in Junk : Count(params, j)
    \/ \E j \in Junk : Count(RESET, j)

SpecCounter == InitCounter /\ [][NextCounter]_vars

(***************************************************************************)
(* A Source on its own: Source{std::string}, then ++ and += in any order.  *)
(***************************************************************************)
MaxAdvance == 3

\* the inputs of a Source, with and without newlines
SourceTexts ==
    { <<>>, <<"a">>, <<"\n">>, <<"a", "\n", "b">>, <<"\n", "\n", "a">>, <<"a", "b", "\n">>,
      <<"n", "\n", "n", " ", "n">>, <<"\n", "a", "\n">>, <<"a", "b", "c", "d">> }

\* Source(const std::string&, pos = SourcePos{})
NewSource(t) ==
    /\ drv' = [text |-> t, junk |-> NUL, instant_fail |-> FALSE,
               d |-> Driver("cursor", StartPos, <<>>, <<>>, NoExtensions, "")]
    /\ call' = [op |-> "Source", from |-> StartPos, i |-> 0]
    /\ UNCHANGED <<bufvars, system>>

\* ++source
Increment ==
    /\ drv.d.kind = "cursor"
    /\ drv' = [drv EXCEPT !.d.str = Inc(drv.text, drv.d.str)]
    /\ call' = [op |-> "++", from |-> drv.d.str, i |-> 1]
    /\ UNCHANGED <<bufvars, system>>

\* source += i
AdvanceBy(i) ==
    /\ drv.d.kind = "cursor"
    /\ drv' = [drv EXCEPT !.d.str = Advance(drv.text, drv.d.str, i)]
    /\ call' = [op |-> "+=", from |-> drv.d.str, i |-> i]
    /\ UNCHANGED <<bufvars, system>>

NextSource ==
    \/ \E t \in SourceTexts : NewSource(t)
    \/ Increment
    \/ \E i \in 0 .. MaxAdvance : AdvanceBy(i)

SpecSource == InitSystem /\ [][NextSource]_vars

(***************************************************************************)
(* expand_generic on its own, on the groups of a template.                 *)
(***************************************************************************)
\* $(...) groups as expand_generic receives them, after the $
Groups ==
    { <<"(", "$", "x", ",", ")">>, <<"(", "a", "$", "x", ",", ")">>, <<"(", "$", "x", "-", "$", "y", ";", ")">>,
      <<"(", "a", "$", "x", " ", "b", "$", "y", " ", "c", ")">>, <<"(", "<", "$", "x", "$", "y", ">", ")">> }

\* the lists of captures of a name
ValueLists == UNION {ItemLists(n) : n \in 0 .. MaxItems}

\* the maps of the names x and y
GroupVars == {<<<<<<"x">>, vx>>, <<<<"y">>, vy>>>> : vx \in ValueLists, vy \in ValueLists}

\* expand_generic(str, expand_vars)
ExpandGeneric(str, expand_vars) ==
    /\ call' = [op |-> "expand_generic", str |-> str, expand_vars |-> expand_vars,
                result |-> expand_generic(str, expand_vars, system.ext, NUL)]
    /\ UNCHANGED <<bufvars, system, drv>>

NextExpand == \E str \in Groups, expand_vars \in GroupVars : ExpandGeneric(str, expand_vars)

SpecExpand == InitCounter /\ [][NextExpand]_vars

(***************************************************************************)
(* The scan of a template, with and without the default extensions.        *)
(***************************************************************************)
\* the parts of a template with one reference: the text before it, the name,
\* the parameter list, the text after it
Befores == {<<>>, <<"a">>, <<"a", "b">>}
Names == {EXPAND_COUNT, <<"v">>}
ParamLists == {<<>>, <<"(", "k", ")">>}
Afters == {<<>>, <<" ", "z">>, <<";">>}

\* captures of the names, one of them of the name of the extension
TemplateVars == <<<<EXPAND_COUNT, <<<<"7">>>>>>, <<<<"v">>, <<<<"1">>, <<"2">>>>>>>>

\* the scan of the template of a matched rule in parse: the for loop over expand
ExpandTemplate(before, name, params, after) ==
    /\ system.made
    /\ \E x \in {TemplateLoop(before \o <<"$">> \o name \o params \o after, 0, TemplateVars,
                              system.ext, NUL)} :
           /\ call' = [op |-> "template", before |-> before, name |-> name, params |-> params,
                       after |-> after, ext |-> system.ext, result |-> x]
           /\ system' = [system EXCEPT !.ext = x.ext]
    /\ drv' = NoDriver
    /\ UNCHANGED bufvars

NextTemplate ==
    \/ CanCount /\ \E before \in Befores, name \in Names, params \in ParamLists, after \in Afters :
          ExpandTemplate(before, name, params, after)
    \/ EnableDefaultExtensions
    \/ Discard

\* a System with no rules and no extensions
InitTemplate ==
    /\ bufs = <<>> /\ heap = <<>> /\ fault = "none" /\ ops = 0 /\ last = <<>>
    /\ system = [made |-> TRUE, given |-> <<>>, rules |-> <<>>, ext |-> NoExtensions]
    /\ call = NoCall
    /\ drv = NoDriver

SpecTemplate == InitTemplate /\ [][NextTemplate]_vars

(***************************************************************************)
(* Rules of each kind of word, matched and parsed.                         *)
(***************************************************************************)
\* the EXPAND word "y" of the rules below
Tmpl == WordOfString(<<" ", " ", "+", "\"", "y", "\"">>)

\* one rule for each kind of word: a list of options, a single repeating
\* word, an optional word, captures before a delimiter and at the end, a word
\* after a repeating word, a capture before an EXPAND word that is not the
\* last word, a rule of the EXPAND word alone, a repeating word with an empty
\* literal
MatchRules ==
    { FRule(<<"\"", "y", "\"">>),
      <<WordOfString(<<"^", " ", " ", "a">>), WordOfString(<<"^", " ", " ", "b">>), WordOfString(<<" ", " ", " ", "c">>), Tmpl>>,
      <<WordOfString(<<"^", " ", " ", "a">>), WordOfString(<<" ", " ", " ", "c">>), Tmpl>>,
      <<WordOfString(<<" ", " ", " ", "f">>), WordOfString(<<" ", "#", " ", ",">>), Tmpl>>,
      <<WordOfString(<<" ", " ", " ", "f">>), WordOfString(<<"?", "#", " ", ",">>), Tmpl>>,
      <<WordOfString(<<" ", "#", " ", ",">>), Tmpl>>,
      <<WordOfString(<<"?", " ", " ", "a">>), WordOfString(<<" ", " ", " ", "b">>), Tmpl>>,
      <<WordOfString(<<" ", " ", "$", "x">>), WordOfString(<<" ", " ", " ", "=">>), WordOfString(<<" ", " ", "$", "z">>), Tmpl>>,
      <<WordOfString(<<" ", " ", " ", "f">>), WordOfString(<<" ", " ", "$", "x">>), Tmpl>>,
      <<WordOfString(<<" ", "*", " ", "a">>), WordOfString(<<" ", "#", " ", "b">>), Tmpl>>,
      <<WordOfString(<<" ", " ", "$", "x">>), WordOfString(<<" ", " ", "+", "a">>), Tmpl>>,
      <<Tmpl>>,
      <<WordOfString(<<" ", "#", " ">>), Tmpl>> }

MatchTexts ==
    { <<>>, <<"f", "(", "1", ",", "2", ")">>, <<"f", "(", ")">>, <<"f", "(", "1", ")">>,
      <<"a", " ", "c">>, <<"b", " ", "c">>, <<"c">>, <<"d", " ", "c">>, <<"a", " ", "b">>, <<"b">>,
      <<"f", ",", ",", "x">>, <<"f", " ", "x">>, <<"f">>, <<",", ",">>,
      <<"x", " ", "=", " ", "1">>, <<" ", "x", " ", "y", " ", " ", "=", "1", " ", "2">>, <<"x", " ", "y">>, <<"=", "1">>,
      <<"f", " ", "(", "a", "=", "b", ")", " ", "c">> }

NextMatch ==
    \/ ~system.made /\ \E words \in MatchRules : NewSystem(<<words>>)
    \/ Idle /\ \E t \in MatchTexts, j \in Junk, p \in 0 .. 1 : Match(1, t, j, p)
    \/ Idle /\ \E t \in MatchTexts : ParseBegin(t, NUL, FALSE)
    \/ ParseStep
    \/ Discard

SpecMatch == InitSystem /\ [][NextMatch]_vars

(***************************************************************************)
(* Claims about the copy-on-write buffer.                                  *)
(***************************************************************************)
Range(seq) == {seq[i] : i \in 1 .. Len(seq)}

\* v is a view of the owning buffer bufs[v].parent: the parent is alive, owns
\* its array, lists v, and v reads that array
IsView(v) ==
    /\ bufs[v].st = "live"
    /\ bufs[v].parent # Null
    /\ bufs[bufs[v].parent].st = "live"
    /\ bufs[bufs[v].parent].parent = Null
    /\ bufs[bufs[v].parent].data # Null
    /\ bufs[v].data = bufs[bufs[v].parent].data
    /\ v \in Range(bufs[bufs[v].parent].refs)

\* C1: a write through a view V of an owning buffer B materializes V first:
\* the bytes readable through B and through every other buffer are the same
\* after the write as before it, and V is left with an array of its own that
\* no other buffer points to, so that no later write through V reaches B or
\* a sibling view either.
C1_CopyOnWriteIsolation ==
    [][\A v \in BufIds :
          (last'.op = "write" /\ last'.b = v /\ IsView(v))
          => /\ fault' = "none"
             /\ \A u \in BufIds \ {v} :
                   bufs[u].st = "live" => Readable(BufState', u) = Readable(BufState, u)
             /\ bufs'[v].parent = Null
             /\ \A u \in BufIds \ {v} :
                   bufs'[u].st = "live" => bufs'[u].data # bufs'[v].data]_vars

\* a view has been written, and now reads differently from its former owner
\* and from a sibling view of that owner
C1_Witness ==
    /\ last.op = "write" /\ last.p # Null /\ fault = "none"
    /\ bufs[last.p].st = "live"
    /\ Readable(BufState, last.b) # Readable(BufState, last.p)
    /\ \E u \in BufIds \ {last.b} :
          /\ bufs[u].st = "live" /\ bufs[u].parent = last.p
          /\ Readable(BufState, u) = Readable(BufState, last.p)

\* C2: when the destructor of an owner with k >= 1 registered views returns,
\* every one of those views is materialized: it has no parent and an array of
\* its own.
C2_DestroyMaterializesViews ==
    [][\A b \in BufIds :
          (/\ last'.op = "destroy" /\ last'.b = b /\ fault' = "none"
           /\ bufs[b].st = "live" /\ bufs[b].parent = Null /\ bufs[b].refs # <<>>)
          => \A v \in Range(bufs[b].refs) :
                (bufs[v].st = "live" /\ bufs[v].parent = b)
                => (bufs'[v].parent = Null /\ bufs'[v].data # bufs[b].data)]_vars


(***************************************************************************)
(* Claims about Rule construction.                                         *)
(***************************************************************************)
\* the last of the words is not an EXPAND word with repetition ONCE
LastNotExpandOnce(words) ==
    /\ words # <<>>
    /\ \/ type(words[Len(words)]) # "EXPAND"
       \/ repeat(words[Len(words)]) # "ONCE"

DuplicateGeneric(words) ==
    \E a, b \in 1 .. Len(words) :
       /\ a < b
       /\ type(words[a]) = "GENERIC" /\ type(words[b]) = "GENERIC"
       /\ Payload(words[a]) = Payload(words[b])

\* C4: a Rule that contains two GENERIC words with the same capture name, at
\* any two positions, is disabled when it is constructed.
C4_DuplicateGenericRejected ==
    \A k \in 1 .. Len(system.given) :
       DuplicateGeneric(system.given[k]) => system.rules[k] = <<>>

\* the two GENERIC words of the same name are not next to each other, and the
\* name is all that is wrong with the rule
C4_Witness ==
    /\ system.made /\ Len(system.given) = 1
    /\ LET words == system.given[1]
       IN  /\ Len(words) = 4
           /\ type(words[1]) = "GENERIC" /\ type(words[3]) = "GENERIC"
           /\ Payload(words[1]) = Payload(words[3])
           /\ type(words[2]) = "DIRECT"
           /\ is_valid(words).code = 7
    /\ system.rules[1] = <<>>

\* a word with repetition REPEAT or REPEAT_SINGLE comes right before a word
\* with optionality OPTIONAL
RepeatThenOptional(words) ==
    \E i \in 1 .. Len(words) - 1 :
       /\ repeat(words[i]) \in {"REPEAT", "REPEAT_SINGLE"}
       /\ optional(words[i + 1]) = "OPTIONAL"

\* C5: Rule construction rejects every rule in which a word with repetition
\* REPEAT_MANY or REPEAT_SINGLE is immediately followed by a word whose
\* optionality is OPTIONAL.
C5_RepeatThenOptionalRejected ==
    \A k \in 1 .. Len(system.given) :
       RepeatThenOptional(system.given[k]) => system.rules[k] = <<>>

\* a REPEAT_SINGLE word before an OPTIONAL word is all that is wrong with the
\* rule
C5_Witness ==
    /\ system.made /\ Len(system.given) = 1
    /\ LET words == system.given[1]
       IN  /\ Len(words) = 3
           /\ repeat(words[1]) = "REPEAT_SINGLE" /\ optional(words[2]) = "OPTIONAL"
           /\ is_valid(words).code = 6
    /\ system.rules[1] = <<>>

(***************************************************************************)
(* Claims about System::parse.                                             *)
(***************************************************************************)
\* the index of the quote that closes the quoted string which begins at p:
\* the first quote after p with no backslash before it; -1 if there is none
Closes(t, q) == At(t, q) = "\"" /\ At(t, q - 1) # "\\"
ClosingQuote(t, p) ==
    LET ends == {q \in p + 1 .. Len(t) - 1 :
                    Closes(t, q) /\ \A i \in p + 1 .. q - 1 : ~Closes(t, i)}
    IN  IF ends = {} THEN -1 ELSE CHOOSE q \in ends : TRUE

\* C6: when the cursor of parse is at a double-quoted string, no rule is
\* looked for there and the text between the quotes is appended to the output
\* as it is, also when a rule of the System matches that text.
C6_QuotedTextCopied ==
    [][LET str == SkipSpace(drv.text, drv.d.str)
           q == ClosingQuote(drv.text, str.pos)
       IN  (/\ drv.d.kind = "running"
            /\ ~reached_end(drv.text, drv.d.str)
            /\ ~(drv.d.errors # <<>> /\ drv.instant_fail)
            /\ At(drv.text, str.pos) = "\""
            /\ q >= 0)
           => /\ drv'.d.kind = "running"
              /\ drv'.d.res = drv.d.res \o SubStr(drv.text, str.pos + 1, q - str.pos - 1)
              /\ drv'.d.errors = drv.d.errors
              /\ drv'.d.pass.quoted /\ drv'.d.pass.found_rule = 0
              /\ drv'.d.str.pos > q]_vars

\* parse of "a(b,c)" in quotes has returned a(b,c), in a System whose first
\* rule matches a(b,c)
C6_Witness ==
    /\ drv.d.kind = "text"
    /\ drv.text = <<"\"", "a", "(", "b", ",", "c", ")", "\"">>
    /\ drv.d.res = <<"a", "(", "b", ",", "c", ")">>
    /\ Len(system.rules) >= 1
    /\ ~match(system.rules[1], <<"a", "(", "b", ",", "c", ")">>, drv.junk, StartPos).err

\* the words of the rule f ( v* ,* ) before its template
FWords == SubSeq(FRule(<<>>), 1, 5)

\* C7: the rule f, (, repeated GENERIC v, repeated ",", ), EXPAND matches the
\* input f(x1,...,xn) with n >= 1 items, and the capture v holds the list
\* x1, ..., xn in this order.
C7_RepeatedCaptureInOrder ==
    \A items \in UNION {ItemLists(n) : n \in 1 .. MaxItems} \cup {<<<<"1">>, <<"2">>, <<"3">>>>} :
       (/\ call.op = "match" /\ call.pos = 0
        /\ call.text = FText(items)
        /\ Len(system.given[call.rule]) = 6
        /\ SubSeq(system.given[call.rule], 1, 5) = FWords)
       => /\ ~call.result.err
          /\ Captures(system.rules[call.rule], call.text, call.junk,
                      call.result.matches, 1, <<>>) = <<<<<<"v">>, items>>>>

\* the rule has matched f(x1,x2) with two items that differ
C7_Witness ==
    /\ call.op = "match" /\ call.pos = 0 /\ ~call.result.err
    /\ Len(system.given[call.rule]) = 6
    /\ SubSeq(system.given[call.rule], 1, 5) = FWords
    /\ \E items \in ItemLists(2) :
          /\ items[1] # items[2]
          /\ call.text = FText(items)

\* the template $($v,) as it stands, and as a quoted string
GroupTemplate == <<"$", "(", "$", "v", ",", ")">>
QuotedGroupTemplate == <<"\"">> \o GroupTemplate \o <<"\"">>

\* parse of the text t, with either flag, has returned in a System of this
\* one rule
Returned(given, t) ==
    /\ system.given = given
    /\ drv.text = t
    /\ drv.d.kind \notin {"idle", "running"}

C8_WitnessUnquoted ==
    /\ Returned(<<FRule(GroupTemplate)>>, F123)
    /\ drv.d.kind = "errors"

(***************************************************************************)
(* Claims about the extensions and the names of a template.                *)
(***************************************************************************)
\* C9 as it is stated: the counter extension returns the default counter and
\* then increments it, so that the n-th call without parameters returns n - 1;
\* a call with the parameter RESET returns "0" and the default counter holds 0
\* after it.
C9_CounterAsStated ==
    call.op = "count"
    => /\ call.params = <<>>
          => /\ call.result.kind = "ok"
             /\ call.result.value = to_string(call.before.count)
             /\ system.ext.count = call.before.count + 1
       /\ (call.params = <<>> /\ call.nth > 0)
          => call.result.value = to_string(call.nth - 1)
       /\ call.params = RESET
          => /\ call.result.kind = "ok"
             /\ call.result.value = <<"0">>
             /\ system.ext.count = 0

\* C9: the counter extension returns the default counter and then increments
\* it, so that the n-th call without parameters returns n - 1; a call with the
\* parameter RESET sets the default counter to 0, forgets the named counters,
\* and then counts as a call itself: it returns "0" and the default counter
\* holds 1 after it.
C9_Counter ==
    call.op = "count"
    => /\ call.params = <<>>
          => /\ call.result.kind = "ok"
             /\ call.result.value = to_string(call.before.count)
             /\ system.ext.count = call.before.count + 1
             /\ system.ext.counts = call.before.counts
       /\ (call.params = <<>> /\ call.nth > 0)
          => call.result.value = to_string(call.nth - 1)
       /\ call.params = RESET
          => /\ call.result.kind = "ok"
             /\ call.result.value = <<"0">>
             /\ system.ext.count = 1
             /\ system.ext.counts = {}

\* RESET has been called on a counter that had counted, default and named
C9_Witness ==
    /\ call.op = "count" /\ call.params = RESET
    /\ call.before.count > 1 /\ call.before.counts # {}

\* the second call without parameters on a fresh counter has returned
C9_WitnessSecond ==
    /\ call.op = "count" /\ call.params = <<>> /\ call.nth = 2
    /\ call.result.value = <<"1">>

\* the templates that name nope, which is no capture and no extension
NopeTemplates == {<<"$", "n", "o", "p", "e">>, <<"$", "(", "$", "n", "o", "p", "e", ")">>}

\* C10: when the template of a matched rule has a $name that is neither a
\* capture of the match nor a registered extension, parse returns a list of
\* errors with an error at the place of the match.
C10_UnknownNameIsAnError ==
    \A template \in NopeTemplates, t \in FTexts :
       Returned(<<FRule(template)>>, t)
       => /\ drv.d.kind = "errors"
          /\ \E k \in 1 .. Len(drv.d.errors) : drv.d.errors[k].pos = StartPos

(***************************************************************************)
(* Claims about what parse returns.                                        *)
(***************************************************************************)
\* the text holds no quoted string
NoQuote(t) == \A k \in 1 .. Len(t) : t[k] # "\""

\* C11: parsing with an empty rule set is the identity: for every input text
\* that holds no quoted string, parse returns the text it was given.
C11_EmptyRulesIdentity ==
    \A t \in Texts :
       (NoQuote(t) /\ Returned(<<>>, t))
       => /\ drv.d.kind = "text"
          /\ drv.d.res = t


\* a is the beginning of b
IsPrefix(a, b) == Len(a) <= Len(b) /\ SubSeq(b, 1, Len(a)) = a

\* the pass of parse that has just run expanded the template of a rule
Expanding(d) == ~d.pass.quoted /\ d.pass.found_rule > 0 /\ ~ScoreLess(d.pass.best_match_score, One)

\* the text the template of that rule expanded to in the pass from before
ExpandedIn(before, d) ==
    TemplateLoop(Payload(system.rules[d.pass.found_rule][Len(system.rules[d.pass.found_rule])]), 0,
                 Captures(system.rules[d.pass.found_rule], drv.text, drv.junk, d.pass.found_words, 1, <<>>),
                 before.ext, drv.junk)

\* what parse of that text returns
NestedIn(before, d) ==
    parse(system.rules, ExpandedIn(before, d).expand, drv.junk, StartPos,
          ExpandedIn(before, d).ext, FALSE, 1)

\* C12: what parse returns is the list of errors if an error was recorded
\* and the text if none was.  A pass of parse adds the errors it records at
\* the end of the list, so that an error once recorded stays at its place;
\* the errors of a parse of expanded text are all added, in their order,
\* after an error that counts them.
C12_ErrorsInOrder ==
    [][(drv.d.kind = "running" /\ drv'.text = drv.text /\ drv'.d.kind \in {"running", "text", "errors"})
       => /\ IsPrefix(drv.d.errors, drv'.d.errors)
          /\ drv'.d.kind = "text" => drv'.d.errors = <<>>
          /\ drv'.d.kind = "errors" => drv'.d.errors # <<>>
          /\ (/\ drv'.d.kind = "running" /\ Expanding(drv'.d)
              /\ ExpandedIn(drv.d, drv'.d).left = "no" /\ ExpandedIn(drv.d, drv'.d).expand # <<>>
              /\ NestedIn(drv.d, drv'.d).kind = "errors")
             => LET nested == NestedIn(drv.d, drv'.d).errors
                    n == Len(nested)
                    all == drv'.d.errors
                IN  /\ Len(all) > Len(drv.d.errors) + n
                    /\ all[Len(all) - n].message
                          = <<"Found ", to_string(n), " errors while parsing expanded string:">>
                    /\ \A k \in 1 .. n :
                          /\ all[Len(all) - n + k].message = nested[k].message
                          /\ all[Len(all) - n + k].severity = nested[k].severity]_vars

\* parse has returned a list that holds the errors of a parse of expanded
\* text and an error recorded after them
C12_Witness ==
    /\ drv.d.kind = "errors"
    /\ Len(drv.d.errors) >= 3
    /\ drv.d.errors[1].message[1] = "Found "
    /\ drv.d.errors[Len(drv.d.errors)].pos # StartPos


(***************************************************************************)
(* Claims about the matching of words and the choice of a rule.            *)
(***************************************************************************)
\* the token of the text t that get_first_word(str, false) finds at index p
TokenAt(t, j, p) ==
    SubStr(t, get_first_word(t, j, p, FALSE)[1],
           get_first_word(t, j, p, FALSE)[2] - get_first_word(t, j, p, FALSE)[1])

\* C13: a DIRECT word matches only where the next token of the input is the
\* literal of the word exactly; a token that begins with the literal and goes
\* on (the literal f against the token fo) is no match.
C13_DirectIsWholeToken ==
    call.op = "match"
    => \A k \in 1 .. Len(call.result.matches) :
          LET m == call.result.matches[k]
              word == WordAt(system.rules[call.rule], m.id)
          IN  result(type(word)) = "DIRECT"
              => TokenAt(call.text, call.junk, m.match[1]) = Payload(word)


\* the score of rule k for the cursor sp, as a pair <<n, d>> for n / d: the
\* index of the last matched word plus one over the number of words, 2 for a
\* rule matched to its end whose word before the last is DIRECT
ScoreAt(k, sp) ==
    LET words == system.rules[k]
        r == match(words, drv.text, drv.junk, sp).matches
    IN  IF r = <<>> THEN <<0, 1>>
        ELSE IF r[Len(r)].id + 1 < Len(words) THEN <<r[Len(r)].id + 1, Len(words)>>
        ELSE IF result(type(WordAt(words, Len(words) - 2))) = "DIRECT" THEN <<2, 1>>
        ELSE <<1, 1>>

\* a / b < c / d, and a / b = c / d
Below(x, y) == x[1] * y[2] < y[1] * x[2]
Same(x, y) == x[1] * y[2] = y[1] * x[2]

C14_WitnessSecond ==
    /\ drv.d.kind = "running" /\ ~drv.d.pass.quoted
    /\ Len(system.rules) = 2
    /\ drv.d.pass.found_rule = 2
    /\ Below(ScoreAt(1, drv.d.pass.at), ScoreAt(2, drv.d.pass.at))


\* C15: with instant_fail set parse stops at the first error: what it returns
\* holds that error alone, or, when the error is one of a parse of expanded
\* text, the error that counts the errors of that text and the first of
\* them; nothing is matched after the first error.
C15_FailFastStopsAtFirstError ==
    (drv.instant_fail /\ drv.d.kind = "errors")
    => \/ Len(drv.d.errors) = 1
       \/ /\ Len(drv.d.errors) = 2
          /\ drv.d.errors[1].message[1] = "Found "


\* the index at which the next pass of parse looks for a match when the
\* cursor is at index p
ResumesAt(t, p) == SkipSpace(t, Advance(t, StartPos, p)).pos

\* C16: when no rule reaches the score 1 at the cursor, the pass records one
\* error, moves the cursor past one token, the one at the cursor, and parse
\* goes on: the next pass looks for a match at the token that follows.
C16_FailureSkipsOneToken ==
    [][(/\ drv.d.kind = "running" /\ drv'.text = drv.text
        /\ drv'.d.kind = "running" /\ ~drv'.d.pass.quoted
        /\ Below(drv'.d.pass.best_match_score, <<1, 1>>))
       => /\ Len(drv'.d.errors) = Len(drv.d.errors) + 1
          /\ \E full_brace \in BOOLEAN :
                ResumesAt(drv.text, drv'.d.str.pos)
                   = ResumesAt(drv.text,
                               get_first_word(drv.text, drv.junk, drv'.d.pass.at.pos, full_brace)[2])]_vars


\* C17: the text a template expands to is parsed again, and what that parse
\* returns is what the pass adds: its text at the end of the output, or each
\* of its errors at the end of the list of errors, after the error that counts
\* them, at the position of the cursor of the match advanced by the offset of
\* the error in the expanded text.
C17_ExpansionParsedAgain ==
    [][(/\ drv.d.kind = "running" /\ drv'.text = drv.text
        /\ drv'.d.kind = "running" /\ Expanding(drv'.d)
        /\ ExpandedIn(drv.d, drv'.d).left = "no" /\ ExpandedIn(drv.d, drv'.d).expand # <<>>)
       => LET nested == NestedIn(drv.d, drv'.d)
              n == Len(nested.errors)
              all == drv'.d.errors
          IN  /\ nested.kind = "text"
                 => /\ drv'.d.res = drv.d.res \o nested.res
                    /\ drv'.d.errors = drv.d.errors
              /\ nested.kind = "errors"
                 => /\ drv'.d.res = drv.d.res
                    /\ Len(all) = Len(drv.d.errors) + 1 + n
                    /\ all[Len(all) - n].pos = drv'.d.pass.at
                    /\ \A k \in 1 .. n :
                          /\ all[Len(all) - n + k].pos
                                = Advance(drv.text, drv'.d.pass.at, nested.errors[k].pos.pos)
                          /\ all[Len(all) - n + k].message = nested.errors[k].message]_vars

\* the template "$($v,)" has expanded to a quoted string, and the output is
\* the text inside the quotes
C17_Witness ==
    /\ drv.d.kind = "running" /\ Expanding(drv.d)
    /\ drv.d.res # <<>> /\ drv.d.errors = <<>>
    /\ \A k \in 1 .. Len(drv.d.res) : drv.d.res[k] # "\""

\* the errors of a parse of expanded text are in the list, the last of them
\* at a position after the one of the match
C17_WitnessErrors ==
    /\ drv.d.kind = "running" /\ Expanding(drv.d)
    /\ Len(drv.d.errors) >= 3
    /\ drv.d.errors[1].message[1] = "Found "
    /\ drv.d.errors[Len(drv.d.errors)].pos.pos > drv.d.pass.at.pos


\* the found words of the pass that are not the EXPAND word of the rule
SpanWords(d) ==
    {k \in 1 .. Len(d.pass.found_words) :
        result(type(WordAt(system.rules[d.pass.found_rule], d.pass.found_words[k].id))) # "EXPAND"}

\* the end of the span of the last of them
SpanEnd(d) == d.pass.found_words[CHOOSE k \in SpanWords(d) : \A m \in SpanWords(d) : m <= k].match[2]

\* C18: a pass that found a rule with the score 1 leaves the cursor at the
\* end of the span of the last matched word that is not the EXPAND word,
\* whether the template expanded or not, so that the next pass looks for a
\* match at the token that follows the span: nothing after the span is
\* passed over and nothing in it is scanned again.
C18_CursorAtEndOfSpan ==
    [][(/\ drv.d.kind = "running" /\ drv'.text = drv.text
        /\ drv'.d.kind = "running" /\ Expanding(drv'.d)
        /\ SpanWords(drv'.d) # {})
       => ResumesAt(drv.text, drv'.d.str.pos) = ResumesAt(drv.text, SpanEnd(drv'.d))]_vars


(***************************************************************************)
(* Claims about the cursor of a Source.                                    *)
(***************************************************************************)
\* the newlines of t before the offset p
NewlinesBefore(t, p) == {k \in 0 .. p - 1 : At(t, k) = "\n"}

\* the bytes of t before the offset p that come after the last newline before p
SinceNewline(t, p) == {k \in 0 .. p - 1 : \A m \in NewlinesBefore(t, p) : m < k}

\* ++ applied n times
RECURSIVE IncTimes(_, _, _)
IncTimes(t, sp, n) == IF n = 0 THEN sp ELSE IncTimes(t, Inc(t, sp), n - 1)

\* C19: the cursor of a Source that started at offset 0, line 1, column 1 and
\* was moved by ++ and += only is never after the end of the input, its line
\* is 1 more than the number of newlines before the offset and its column 1
\* more than the number of bytes since the last of them; += i leaves it where
\* i times ++ leave it, and at the end of the input neither moves it.
C19_CursorInvariant ==
    drv.d.kind = "cursor"
    => /\ drv.d.str.pos <= Len(drv.text)
       /\ drv.d.str.line = 1 + Cardinality(NewlinesBefore(drv.text, drv.d.str.pos))
       /\ drv.d.str.column = 1 + Cardinality(SinceNewline(drv.text, drv.d.str.pos))
       /\ call.op = "+=" => drv.d.str = IncTimes(drv.text, call.from, call.i)
       /\ (call.op \in {"++", "+="} /\ call.from.pos = Len(drv.text)) => drv.d.str = call.from

\* += has moved the cursor over a newline and on, to a column after the first
C19_Witness ==
    /\ drv.d.kind = "cursor" /\ call.op = "+=" /\ call.i >= 2
    /\ drv.d.str.line > call.from.line /\ drv.d.str.column > 1

\* += at the end of the input
C19_WitnessAtEnd ==
    /\ drv.d.kind = "cursor" /\ call.op = "+=" /\ call.i >= 1
    /\ drv.text # <<>> /\ call.from.pos = Len(drv.text)


(***************************************************************************)
(* Claims about the expansion of a group.                                  *)
(***************************************************************************)
\* the index after the name that begins at index k of body
RECURSIVE NameEnd(_, _)
NameEnd(body, k) == IF k < Len(body) /\ InName(At(body, k)) THEN NameEnd(body, k + 1) ELSE k

\* the names body refers to, from index k on
RECURSIVE NamesIn(_, _)
NamesIn(body, k) ==
    IF k >= Len(body) THEN {}
    ELSE IF At(body, k) = "$"
    THEN {SubStr(body, k + 1, NameEnd(body, k + 1) - (k + 1))} \cup NamesIn(body, NameEnd(body, k + 1))
    ELSE NamesIn(body, k + 1)

\* body from index k on, with capture number i in the place of each $name
RECURSIVE BodyWith(_, _, _, _)
BodyWith(body, expand_vars, i, k) ==
    IF k >= Len(body) THEN <<>>
    ELSE IF At(body, k) = "$"
    THEN VarOf(expand_vars, SubStr(body, k + 1, NameEnd(body, k + 1) - (k + 1)))[i + 1]
         \o BodyWith(body, expand_vars, i, NameEnd(body, k + 1))
    ELSE <<At(body, k)>> \o BodyWith(body, expand_vars, i, k + 1)

\* the bodies for the captures i .. n - 1, one after the other
RECURSIVE BodiesFrom(_, _, _, _)
BodiesFrom(body, expand_vars, i, n) ==
    IF i >= n THEN <<>>
    ELSE BodyWith(body, expand_vars, i, 0) \o BodiesFrom(body, expand_vars, i + 1, n)

\* the text between the brackets of a group
BodyOf(str) == SubStr(str, 1, Len(str) - 2)

\* the length of the shortest list of captures among the names of body
ShortestOf(body, expand_vars) ==
    CHOOSE n \in 0 .. MaxItems :
        /\ \E name \in NamesIn(body, 0) : Len(VarOf(expand_vars, name)) = n
        /\ \A name \in NamesIn(body, 0) : Len(VarOf(expand_vars, name)) >= n

\* C20: a group whose names have n captures at least expands to its body n
\* times, the i-th time with the i-th capture of each name in the place of
\* the name, and every time with all of the text of the body that is not a
\* name: before the first name, between the names and after the last.
C20_GroupRepeatsWholeBody ==
    (call.op = "expand_generic" /\ call.result.kind = "ok")
    => call.result.value
          = BodiesFrom(BodyOf(call.str), call.expand_vars, 0, ShortestOf(BodyOf(call.str), call.expand_vars))


(***************************************************************************)
(* Claims about the words of a rule: lists of options, repeating words,    *)
(* captures and the EXPAND word.                                           *)
(***************************************************************************)
\* the rule of the call of match and the offset of its cursor
CallWords == system.rules[call.rule]
CallAt == Advance(call.text, StartPos, call.pos).pos

\* the words of the list of options the rule begins with that match at the cursor
OptionsAtCursor ==
    {k \in 0 .. LastOfList(CallWords, 0) :
        ~ensure_word_match(CallWords, call.text, call.junk, CallAt, k, FALSE).err}

\* C21: for a rule that begins with a list of options (^), match fails with
\* no word matched when no option matches at the cursor; when an option
\* matches, the first WordMatch is the one of an option that matches there and
\* the next one, if any, is of a word after the list.
C21_OneOfList ==
    (/\ call.op = "match" /\ CallWords # <<>>
     /\ result(optional(WordAt(CallWords, 0))) = "OPTIONAL_LIST_MANDATORY_ONE")
    => /\ OptionsAtCursor = {} => (call.result.err /\ call.result.matches = <<>>)
       /\ OptionsAtCursor # {}
          => /\ call.result.matches # <<>>
             /\ call.result.matches[1].id \in OptionsAtCursor
             /\ Len(call.result.matches) >= 2
                => call.result.matches[2].id > LastOfList(CallWords, 0)


\* the words of the rule of the call that match_result holds a WordMatch of
MatchedIds == {call.result.matches[m].id : m \in 1 .. Len(call.result.matches)}

\* C22: a match that succeeds holds a WordMatch of every single repeating
\* word (#) that is MANDATORY, whatever was matched before the word: such a
\* word that matches nowhere makes the match fail.  (One that is OPTIONAL may
\* be absent.)
C22_SingleRepeatMatchesOnce ==
    (call.op = "match" /\ ~call.result.err)
    => \A k \in 0 .. Len(CallWords) - 1 :
          (/\ result(repeat(WordAt(CallWords, k))) = "REPEAT_SINGLE"
           /\ result(optional(WordAt(CallWords, k))) = "MANDATORY")
          => k \in MatchedIds


\* the first of the repeating words (*) of the rule of the call, or the number
\* of its words if it has none
FirstRepeat ==
    CHOOSE k \in 0 .. Len(CallWords) :
        /\ k < Len(CallWords) => result(repeat(WordAt(CallWords, k))) = "REPEAT"
        /\ \A m \in 0 .. k - 1 : result(repeat(WordAt(CallWords, m))) # "REPEAT"

\* match_result begins with one WordMatch for each word before the repeating words
ReachedRepeat ==
    /\ FirstRepeat > 0 /\ FirstRepeat < Len(CallWords)
    /\ Len(call.result.matches) >= FirstRepeat
    /\ \A m \in 1 .. FirstRepeat : call.result.matches[m].id = m - 1

\* the offset match looks for the repeating words at, after those words
AtRepeat ==
    Advance(call.text, Advance(call.text, StartPos, call.pos),
            call.result.matches[FirstRepeat].match[2]).pos

\* C23: repeating words (*) followed by a delimiter match no repetition at
\* all: where the delimiter matches right after the words before them, and
\* the first repeating word does not, the next WordMatch is the one of the
\* delimiter (f() under f ( v* ,* ) matches, with no capture).
C23_ZeroRepetitions ==
    (/\ call.op = "match" /\ CallWords # <<>> /\ ReachedRepeat
     /\ ensure_word_match(CallWords, call.text, call.junk, AtRepeat, FirstRepeat, FALSE).err
     /\ ~ensure_word_match(CallWords, call.text, call.junk, AtRepeat,
                           SkipRepeat(CallWords, FirstRepeat), FALSE).err)
    => /\ Len(call.result.matches) > FirstRepeat
       /\ call.result.matches[FirstRepeat + 1].id = SkipRepeat(CallWords, FirstRepeat)


\* the offset of the cursor match looks for the k-th WordMatch at: the end of
\* the WordMatch before it, counted from the cursor of the call
CursorOf(k) ==
    IF k = 1 THEN CallAt
    ELSE Advance(call.text, Advance(call.text, StartPos, call.pos),
                 call.result.matches[k - 1].match[2]).pos

\* the word of the k-th WordMatch is a capture
IsCapture(k) == result(type(WordAt(CallWords, call.result.matches[k].id))) = "GENERIC"

\* ... and the last word before the EXPAND word of the rule
IsLastCapture(k) == IsCapture(k) /\ call.result.matches[k].id = Len(CallWords) - 2

\* one of the words that may continue after the word id matches at offset p
ContinuesAt(id, p) ==
    \E c \in {id + 1, SkipRepeat(CallWords, id + 1)} :
        ~ensure_word_match(CallWords, call.text, call.junk, p, c, FALSE).err

\* C24: the span of a capture begins at the first character at or after the
\* cursor that is not whitespace.  The span of a capture that is not the last
\* word before the EXPAND word is not empty, does not end with whitespace and
\* ends where a word that continues the rule matches; the span of a capture
\* that is the last word before the EXPAND word is the next token, taken with
\* its brackets balanced.
C24_CaptureSpan ==
    (call.op = "match" /\ ~call.result.hung /\ ~call.result.undefined)
    => \A k \in 1 .. Len(call.result.matches) :
          IsCapture(k)
          => /\ call.result.matches[k].match[1] = ResumesAt(call.text, CursorOf(k))
             /\ IsLastCapture(k)
                => call.result.matches[k].match
                      = get_first_word(call.text, call.junk, CursorOf(k), TRUE)
             /\ ~IsLastCapture(k)
                => /\ call.result.matches[k].match[2] > call.result.matches[k].match[1]
                   /\ ~is_whitespace(At(call.text, call.result.matches[k].match[2] - 1))
                   /\ ContinuesAt(call.result.matches[k].id, call.result.matches[k].match[2])


\* C25: the WordMatch of an EXPAND word is an empty span at the end of what
\* was matched before it, and a match that succeeds ends with the WordMatch of
\* the EXPAND word of the rule: the spans of the list begin at offsets that
\* never decrease.
C25_ExpandSpanAtEnd ==
    (call.op = "match" /\ ~call.result.err)
    => /\ call.result.matches # <<>>
       /\ call.result.matches[Len(call.result.matches)].id = Len(CallWords) - 1
       /\ \A k \in 1 .. Len(call.result.matches) :
             /\ result(type(WordAt(CallWords, call.result.matches[k].id))) = "EXPAND"
                => call.result.matches[k].match[1] = call.result.matches[k].match[2]
             /\ k > 1 => call.result.matches[k].match[1] >= call.result.matches[k - 1].match[2]


(***************************************************************************)
(* Claims about the names of a template.                                   *)
(***************************************************************************)
\* the text between the brackets of a parameter list, none for no list
ParamsText(params) == IF params = <<>> THEN <<>> ELSE SubStr(params, 1, Len(params) - 2)

\* C26: a reference $name in a template, with the parameter list that follows
\* it at once, is replaced by the text the extension of that name returns for
\* the text of the list (the empty text for no list), also where a capture has
\* the name; a name that is no extension is replaced by the first value of
\* the capture of that name.  The text before and after stays as it is.
C26_NameResolution ==
    call.op = "template"
    => /\ ~call.result.failed /\ call.result.left = "no"
       /\ HasExtension(call.ext, call.name)
          => call.result.expand
                = call.before
                  \o ExpandCountExtension(call.ext, NUL, ParamsText(call.params)).value
                  \o call.after
       /\ (~HasExtension(call.ext, call.name) /\ call.params = <<>>)
          => call.result.expand
                = call.before \o Head(VarOf(TemplateVars, call.name)) \o call.after


(***************************************************************************)
(* Claims about the indices of the words that are read.                    *)
(***************************************************************************)
\* C27: is_valid, match and the loop over the rules of parse read words of a
\* rule at indices from 0 to the number of its words less 1 only.  In
\* is_valid the word after a repeating word is read, and the last word, the
\* only one with no word after it, is not repeating when the loop is reached;
\* match of a rule is_valid accepts does not end by a read outside the words
\* and neither does a pass of parse.
C27_WordIndicesInRange ==
    /\ \A k \in 1 .. Len(system.given) :
          (system.given[k] # <<>> /\ LastWordCheck(system.given[k]) = NoError)
          => result(repeat(WordAt(system.given[k], Len(system.given[k]) - 1))) = "ONCE"
    /\ call.op = "match" => ~call.result.undefined
    /\ ~(drv.d.kind = "undefined" /\ drv.d.what = "words")


(***************************************************************************)
(* Claims about termination.                                               *)
(***************************************************************************)
\* C28: match of a rule is_valid accepts ends on every input: no call of
\* match comes back to a word, an offset and a repeating mark it was at
\* before, which is how a loop of match that never ends shows.
C28_MatchTerminates ==
    call.op = "match" => ~call.result.hung


\* C29: every pass of the loop of parse leaves the cursor further on than it
\* found it, and with rules whose templates are quoted strings no pass stays
\* in a call that never returns, so that parse ends on every input.
C29_DriverAdvances ==
    [][drv.d.kind = "running"
       => /\ drv'.d.kind # "hung"
          /\ drv'.d.kind = "running" => drv'.d.str.pos > drv.d.str.pos]_vars

\* the part on the passes that return: each leaves the cursor further on
C29_PassAdvances ==
    [][(drv.d.kind = "running" /\ drv'.d.kind = "running")
       => drv'.d.str.pos > drv.d.str.pos]_vars


(***************************************************************************)
(* Claims about the registry of views.                                     *)
(***************************************************************************)
\* C30: after every sequence of operations on the buffers that ran without a
\* fault, a live buffer v has the parent p exactly when p is alive and lists
\* v among its views.
C30_RegistryConsistent ==
    fault = "none"
    => \A v \in BufIds, p \in BufIds :
          bufs[v].st = "live"
          => (bufs[v].parent = p <=> (bufs[p].st = "live" /\ v \in Range(bufs[p].refs)))

=============================================================================
